---- MODULE Spec2Model ----
(***************************************************************************)
(* Balance: upload sessions, magic-link email tokens, access checks, file  *)
(* management and the in-memory rate limiter of the API, as state machines.*)
(* Time is counted in seconds; the source's millisecond spans are scaled.   *)
(***************************************************************************)
EXTENDS Integers, Sequences, FiniteSets, TLC

\* ------------------------------------------------------------------------
\* Bounds of the model
\* ------------------------------------------------------------------------
MaxTicks == 3
MaxHits == 6
MaxCalls == 7
MaxFiles == 3
MaxFilesPerUpload == 2
MaxPhrases == 3
MaxFreeDraws == 1

\* ------------------------------------------------------------------------
\* Program constants
\* ------------------------------------------------------------------------
WINDOW_MS == 10 * 60 * 1000
MAX_REQUESTS == 5
DEFAULT_MAGIC_LINK_TTL_MINUTES == 15
DEFAULT_SESSION_TTL_DAYS == 7
SESSION_ID_RETRY_LIMIT == 5
DEFAULT_MAX_FILES_PER_UPLOAD == 10
DEFAULT_MAX_FILE_SIZE_MB == 15

REQUEST_LINK_MESSAGE == "If we found a session, you'll receive an email shortly."
REQUEST_SESSIONS_MESSAGE == "If we found sessions, you'll receive an email shortly."
INVALID_TOKEN_MESSAGE == "Invalid or expired token."
SESSION_NOT_FOUND_MESSAGE == "Session not found."
SESSION_ACCESS_FORBIDDEN_MESSAGE == "Access to this session is not allowed."
FILE_NOT_FOUND_MESSAGE == "File not found."
FILES_MOVE_EMPTY_MESSAGE == "At least one file id is required for move."
SESSION_ID_COLLISION_MESSAGE == "Unable to create a unique session ID after 5 attempts."

Window == WINDOW_MS \div 1000
MagicLinkTtl == (DEFAULT_MAGIC_LINK_TTL_MINUTES * 60 * 1000) \div 1000
SessionTtl == (DEFAULT_SESSION_TTL_DAYS * 24 * 60 * 60 * 1000) \div 1000

\* ------------------------------------------------------------------------
\* Value universes
\* ------------------------------------------------------------------------
NULL == -1
NoSid == "none"
NoIp == "undefined"
Emails == {"a@x.com", "b@x.com"}
RawEmails == Emails \cup {" A@X.com "}
SessionIds == {"AAAAAAA2", "BBBBBBB3"}
Ips == {"10.0.0.1", NoIp}
Endpoints == {"request-link", "request-sessions"}
RawTokens == {"t1", "t2"}
Procs == {"p1", "p2"}

VARIABLES now, hits, rlLog, sessions, tokens, outbox, accessTokens, files, storage, procs, lastResp

vars == <<now, hits, rlLog, sessions, tokens, outbox, accessTokens, files, storage, procs, lastResp>>

\* ------------------------------------------------------------------------
\* Clock
\* ------------------------------------------------------------------------
HalfWindow == Window \div 2

TickCount(t) == (t \div SessionTtl) + ((t % SessionTtl) \div HalfWindow)

Tick(d) ==
    /\ TickCount(now) + TickCount(d) <= MaxTicks
    /\ now' = now + d
    /\ UNCHANGED <<hits, rlLog, sessions, tokens, outbox, accessTokens, files, storage, procs, lastResp>>

\* ------------------------------------------------------------------------
\* AuthRateLimiterService
\* ------------------------------------------------------------------------
RateKey(endpoint, ip, email) ==
    <<endpoint, IF ip = NoIp THEN "unknown" ELSE ip, email>>

RateKeys == { RateKey(e, i, m) : e \in Endpoints, i \in Ips, m \in Emails }

RecentHits_windowInclusive(h, key, t) ==
    SelectSeq(h[key], LAMBDA timestamp : t - timestamp <= Window) \o <<t>>

RecentHits(h, key, t) ==
    SelectSeq(h[key], LAMBDA timestamp : t - timestamp < Window) \o <<t>>

isRateLimited_offByOne(h, key, t) == Len(RecentHits(h, key, t)) >= MAX_REQUESTS

isRateLimited(h, key, t) == Len(RecentHits(h, key, t)) > MAX_REQUESTS

HitsAfter(h, key, t) == [h EXCEPT ![key] = RecentHits(h, key, t)]

RECURSIVE SumLen(_, _)
SumLen(h, keys) ==
    IF keys = {} THEN 0
    ELSE LET k == CHOOSE x \in keys : TRUE IN Len(h[k]) + SumLen(h, keys \ {k})

StoredHits(h) == SumLen(h, DOMAIN h)

RateLimitCall(endpoint, ip, email) ==
    LET key == RateKey(endpoint, ip, email) IN
    /\ Len(rlLog) < MaxCalls
    /\ StoredHits(HitsAfter(hits, key, now)) <= MaxHits + 1
    /\ hits' = HitsAfter(hits, key, now)
    /\ rlLog' = Append(rlLog, [key |-> key, t |-> now, limited |-> isRateLimited(hits, key, now)])
    /\ UNCHANGED <<now, sessions, tokens, outbox, accessTokens, files, storage, procs, lastResp>>

\* ------------------------------------------------------------------------
\* Initial state: empty collections, empty hit map, no request in flight
\* ------------------------------------------------------------------------
Idle == [pc |-> "idle"]
NoResp == [op |-> "none"]

Init ==
    /\ now = 0
    /\ hits = [k \in RateKeys |-> <<>>]
    /\ rlLog = <<>>
    /\ sessions = {}
    /\ tokens = {}
    /\ outbox = {}
    /\ accessTokens = <<>>
    /\ files = <<>>
    /\ storage = {}
    /\ procs = [p \in Procs |-> Idle]
    /\ lastResp = NoResp

\* ------------------------------------------------------------------------
\* Emails and sessions (SessionsService)
\* ------------------------------------------------------------------------
normalizeEmail(email) == IF email = " A@X.com " THEN "a@x.com" ELSE email

SessionsWithId(sid) == { s \in sessions : s.sessionId = sid }

getActiveSessionFilter_noExpiry(s, t) ==
    /\ s.status = "active"
    /\ s.deletedAt = NULL

getActiveSessionFilter_expiryInclusive(s, t) ==
    /\ s.status = "active"
    /\ s.expiresAt >= t
    /\ s.deletedAt = NULL

getActiveSessionFilter(s, t) ==
    /\ s.status = "active"
    /\ s.expiresAt > t
    /\ s.deletedAt = NULL

findActiveSessionByIdAndEmail(sid, email, t) ==
    { s \in sessions : /\ getActiveSessionFilter(s, t)
                       /\ s.sessionId = sid
                       /\ s.email = normalizeEmail(email) }

countActiveSessionsForEmail(email, t) ==
    Cardinality({ s \in sessions : /\ getActiveSessionFilter(s, t)
                                   /\ s.email = normalizeEmail(email) })

listActiveSessionsForEmail(email, t) ==
    { s.sessionId : s \in { x \in sessions : /\ getActiveSessionFilter(x, t)
                                             /\ x.email = normalizeEmail(email) } }

SetProc(p, rec) == procs' = [procs EXCEPT ![p] = rec]

Resp(op, req, status, body, log) ==
    [op |-> op, req |-> req, status |-> status, body |-> body, log |-> log]

\* createSession, split at its awaits: exists(), create(); `generated` counts the
\* ids drawn and `duplicates` the inserts the unique index turned down
CreateSessionStart(p, email) ==
    /\ lastResp = NoResp
    /\ procs[p].pc = "idle"
    /\ SetProc(p, [pc |-> "cs_exists", email |-> email, expiresAt |-> now + SessionTtl,
                   attempt |-> 1, sessionId |-> NoSid, generated |-> 0, duplicates |-> 0])
    /\ UNCHANGED <<now, hits, rlLog, sessions, tokens, outbox, accessTokens, files, storage, lastResp>>

CreateSessionLog(p) ==
    [generated |-> procs[p].generated, duplicates |-> procs[p].duplicates]

CreateSessionExists_retriesForever(p) ==
    /\ lastResp = NoResp
    /\ procs[p].pc = "cs_exists"
    /\ \E sid \in SessionIds :
         IF SessionsWithId(sid) # {}
         THEN SetProc(p, [procs[p] EXCEPT !.generated = @ + 1])
         ELSE SetProc(p, [procs[p] EXCEPT !.pc = "cs_create", !.sessionId = sid,
                                          !.generated = @ + 1])
    /\ UNCHANGED <<now, hits, rlLog, sessions, tokens, outbox, accessTokens, files, storage, lastResp>>

\* the loop head, generateSessionId() and sessionsModel.exists({ sessionId })
CreateSessionExists(p) ==
    /\ lastResp = NoResp
    /\ procs[p].pc = "cs_exists"
    /\ IF procs[p].attempt > SESSION_ID_RETRY_LIMIT
       THEN /\ SetProc(p, Idle)
            /\ lastResp' = Resp("createSession", [email |-> procs[p].email], 500,
                                SESSION_ID_COLLISION_MESSAGE, CreateSessionLog(p))
       ELSE /\ \E sid \in SessionIds :
                 IF SessionsWithId(sid) # {}
                 THEN SetProc(p, [procs[p] EXCEPT !.attempt = @ + 1, !.generated = @ + 1])
                 ELSE SetProc(p, [procs[p] EXCEPT !.pc = "cs_create", !.sessionId = sid,
                                                  !.generated = @ + 1])
            /\ UNCHANGED lastResp
    /\ UNCHANGED <<now, hits, rlLog, sessions, tokens, outbox, accessTokens, files, storage>>

createSessionBootstrapAccessToken(email, sid) ==
    [email |-> email, sessionId |-> sid, type |-> "session_bootstrap"]

\* the document sessionsModel.create stores; the schema trims and lower-cases email
NewSession(p) ==
    [sessionId |-> procs[p].sessionId, email |-> normalizeEmail(procs[p].email),
     status |-> "active", expiresAt |-> procs[p].expiresAt,
     deletedAt |-> NULL, autoCategorizeOnUpload |-> TRUE]

CreateSessionCreate_noUniqueIndex(p, outcome) ==
    /\ lastResp = NoResp
    /\ procs[p].pc = "cs_create"
    /\ outcome = "created"
    /\ sessions' = sessions \cup {NewSession(p)}
    /\ SetProc(p, Idle)
    /\ lastResp' = Resp("createSession", [email |-> procs[p].email], 201,
                        [sessionId |-> procs[p].sessionId,
                         accessToken |-> createSessionBootstrapAccessToken(
                                            NewSession(p).email, procs[p].sessionId)],
                        CreateSessionLog(p))
    /\ UNCHANGED <<now, hits, rlLog, tokens, outbox, accessTokens, files, storage>>

\* sessionsModel.create under the unique index on sessionId, then the token;
\* outcome: created, error (the insert fails otherwise), signError (jwt sign throws)
CreateSessionCreate(p, outcome) ==
    /\ lastResp = NoResp
    /\ procs[p].pc = "cs_create"
    /\ IF outcome = "error"
       THEN /\ SetProc(p, Idle)
            /\ lastResp' = Resp("createSession", [email |-> procs[p].email], 500,
                                "Failed to create session.", CreateSessionLog(p))
            /\ UNCHANGED sessions
       ELSE IF SessionsWithId(procs[p].sessionId) # {}
       THEN /\ SetProc(p, [procs[p] EXCEPT !.pc = "cs_exists", !.attempt = @ + 1,
                                           !.sessionId = NoSid, !.duplicates = @ + 1])
            /\ UNCHANGED <<sessions, lastResp>>
       ELSE /\ sessions' = sessions \cup {NewSession(p)}
            /\ SetProc(p, Idle)
            /\ lastResp' =
                 IF outcome = "signError"
                 THEN Resp("createSession", [email |-> procs[p].email], 500,
                           "Failed to create session.", CreateSessionLog(p))
                 ELSE Resp("createSession", [email |-> procs[p].email], 201,
                           [sessionId |-> procs[p].sessionId,
                            accessToken |-> createSessionBootstrapAccessToken(
                                               NewSession(p).email, procs[p].sessionId)],
                           CreateSessionLog(p))
    /\ UNCHANGED <<now, hits, rlLog, tokens, outbox, accessTokens, files, storage>>

\* ------------------------------------------------------------------------
\* Email tokens (AuthService)
\* ------------------------------------------------------------------------
sha256Hex(raw) == <<"sha256", raw>>

TokensWithHash(h) == { d \in tokens : d.tokenHash = h }

\* createEmailToken: up to 3 inserts, each with a freshly generated raw token.
\* gen[i] is the token generated at attempt i, failAt the attempt whose insert
\* throws an error other than duplicate key (0: none).
RECURSIVE createEmailTokenFrom(_, _, _, _, _)
createEmailTokenFrom(attempt, payload, gen, failAt, t) ==
    IF attempt > 3
    THEN [ok |-> FALSE, raw |-> "", tokens |-> tokens, error |-> "unique-hash",
          attempts |-> attempt - 1]
    ELSE IF failAt = attempt
    THEN [ok |-> FALSE, raw |-> "", tokens |-> tokens, error |-> "insert",
          attempts |-> attempt]
    ELSE IF TokensWithHash(sha256Hex(gen[attempt])) # {}
    THEN createEmailTokenFrom(attempt + 1, payload, gen, failAt, t)
    ELSE [ok |-> TRUE, raw |-> gen[attempt], error |-> "", attempts |-> attempt,
          tokens |-> tokens \cup
             {[tokenHash |-> sha256Hex(gen[attempt]), email |-> normalizeEmail(payload.email),
               sessionId |-> payload.sessionId, purpose |-> payload.purpose,
               createdAt |-> t, usedAt |-> NULL, expiresAt |-> t + MagicLinkTtl]}]

createEmailToken_twoAttempts(payload, gen, failAt, t) ==
    createEmailTokenFrom(2, payload, gen, failAt, t)

createEmailToken(payload, gen, failAt, t) == createEmailTokenFrom(1, payload, gen, failAt, t)

\* one call of createEmailToken on its own: what it stores and what it hands back
CreateEmailToken(payload, gen, failAt) ==
    LET created == createEmailToken(payload, gen, failAt, now)
    IN /\ tokens' = created.tokens
       /\ lastResp' = Resp("createEmailToken",
                           [payload |-> payload, gen |-> gen, failAt |-> failAt],
                           IF created.ok THEN 200 ELSE 500,
                           [raw |-> created.raw, attempts |-> created.attempts],
                           IF created.ok THEN "ok" ELSE created.error)
       /\ UNCHANGED <<now, hits, rlLog, sessions, outbox, accessTokens, files, storage, procs>>

RequestLinkResponse_rethrow(case) ==
    IF case \in {"token-error", "email-error"}
    THEN [status |-> 500, body |-> "Internal server error"]
    ELSE [status |-> 201, body |-> REQUEST_LINK_MESSAGE]

RequestLinkResponse(case) == [status |-> 201, body |-> REQUEST_LINK_MESSAGE]

RequestSessionsResponse(case) == [status |-> 201, body |-> REQUEST_SESSIONS_MESSAGE]

\* Issue a token and send the magic link; both failures are caught and logged.
IssueAndSend(op, req, email, payload) ==
    \E gen \in [1..3 -> RawTokens], failAt \in 0..3, sendOk \in BOOLEAN :
        LET created == createEmailToken(payload, gen, failAt, now)
            case == IF ~created.ok THEN "token-error"
                    ELSE IF sendOk THEN "sent" ELSE "email-error"
            response(c) == IF op = "requestLink" THEN RequestLinkResponse(c)
                           ELSE RequestSessionsResponse(c)
        IN /\ tokens' = created.tokens
           /\ outbox' = IF created.ok /\ sendOk
                        THEN outbox \cup {[to |-> normalizeEmail(email), rawToken |-> created.raw]}
                        ELSE outbox
           /\ lastResp' = Resp(op, req, response(case).status, response(case).body, case)

requestLinkLimited_wrongEndpoint(h, ip, email, t) ==
    isRateLimited(h, RateKey("request-sessions", ip, email), t)

requestLinkLimited(h, ip, email, t) == isRateLimited(h, RateKey("request-link", ip, email), t)

RequestLink(email, sid, ip) ==
    LET key == RateKey("request-link", ip, email)
        req == [email |-> email, sessionId |-> sid, ip |-> ip]
    IN
    /\ StoredHits(HitsAfter(hits, key, now)) <= MaxHits
    /\ hits' = HitsAfter(hits, key, now)
    /\ IF requestLinkLimited(hits, ip, email, now)
       THEN /\ lastResp' = Resp("requestLink", req, RequestLinkResponse("rate-limited").status,
                                RequestLinkResponse("rate-limited").body, "rate-limited")
            /\ UNCHANGED <<tokens, outbox>>
       ELSE IF findActiveSessionByIdAndEmail(sid, email, now) = {}
       THEN /\ lastResp' = Resp("requestLink", req, RequestLinkResponse("no-session").status,
                                RequestLinkResponse("no-session").body, "no-session")
            /\ UNCHANGED <<tokens, outbox>>
       ELSE IssueAndSend("requestLink", req, email,
                         [email |-> email, sessionId |-> sid, purpose |-> "continue_session"])
    /\ UNCHANGED <<now, rlLog, sessions, accessTokens, files, storage, procs>>

RequestSessions(rawEmail, ip) ==
    LET normalizedEmail == normalizeEmail(rawEmail)
        key == RateKey("request-sessions", ip, normalizedEmail)
        req == [email |-> rawEmail, sessionId |-> NoSid, ip |-> ip]
    IN
    /\ StoredHits(HitsAfter(hits, key, now)) <= MaxHits
    /\ hits' = HitsAfter(hits, key, now)
    /\ IF isRateLimited(hits, key, now)
       THEN /\ lastResp' = Resp("requestSessions", req, RequestSessionsResponse("rate-limited").status,
                                RequestSessionsResponse("rate-limited").body, "rate-limited")
            /\ UNCHANGED <<tokens, outbox>>
       ELSE IF ~(countActiveSessionsForEmail(normalizedEmail, now) > 0)
       THEN /\ lastResp' = Resp("requestSessions", req, RequestSessionsResponse("no-session").status,
                                RequestSessionsResponse("no-session").body, "no-session")
            /\ UNCHANGED <<tokens, outbox>>
       ELSE IssueAndSend("requestSessions", req, normalizedEmail,
                         [email |-> normalizedEmail, sessionId |-> NoSid, purpose |-> "find_sessions"])
    /\ UNCHANGED <<now, rlLog, sessions, accessTokens, files, storage, procs>>

\* verifyToken, split at its awaits: the atomic findOneAndUpdate, then the
\* diagnostics lookup, token minting and session listing.
ConsumeFilter_ignoresUsed(d, tokenHash, t) ==
    /\ d.tokenHash = tokenHash
    /\ d.expiresAt > t

ConsumeFilter(d, tokenHash, t) ==
    /\ d.tokenHash = tokenHash
    /\ d.usedAt = NULL
    /\ d.expiresAt > t

NoDoc == [tokenHash |-> <<"sha256", "">>]

VerifyConsume(p, rawToken) ==
    LET tokenHash == sha256Hex(rawToken)
        matching == { d \in tokens : ConsumeFilter(d, tokenHash, now) }
    IN
    /\ procs[p].pc = "idle"
    /\ IF matching # {}
       THEN \E d \in matching :
              LET used == [d EXCEPT !.usedAt = now] IN
              /\ tokens' = (tokens \ {d}) \cup {used}
              /\ SetProc(p, [pc |-> "vt_finish", rawToken |-> rawToken, at |-> now,
                             tokenDoc |-> used])
       ELSE /\ UNCHANGED tokens
            /\ SetProc(p, [pc |-> "vt_finish", rawToken |-> rawToken, at |-> now,
                           tokenDoc |-> NoDoc])
    /\ UNCHANGED <<now, hits, rlLog, sessions, outbox, accessTokens, files, storage, lastResp>>

logVerifyTokenDiagnostics(tokenHash, at, consumed) ==
    LET existing == TokensWithHash(tokenHash) IN
    IF consumed \/ existing = {}
    THEN [foundToken |-> consumed, isExpired |-> FALSE, isUsed |-> FALSE]
    ELSE LET e == CHOOSE d \in existing : TRUE IN
         [foundToken |-> TRUE, isExpired |-> e.expiresAt <= at, isUsed |-> e.usedAt # NULL]

getAccessTokenType(purpose) ==
    IF purpose = "continue_session" THEN "continue_session" ELSE "find_sessions"

createAccessToken(tokenDoc) ==
    [email |-> tokenDoc.email,
     sessionId |-> IF tokenDoc.purpose = "continue_session" /\ tokenDoc.sessionId # NoSid
                   THEN tokenDoc.sessionId ELSE NoSid,
     type |-> getAccessTokenType(tokenDoc.purpose)]

getSessionsForToken(tokenDoc, t) ==
    IF tokenDoc.purpose = "continue_session" /\ tokenDoc.sessionId # NoSid
    THEN { s.sessionId : s \in findActiveSessionByIdAndEmail(tokenDoc.sessionId, tokenDoc.email, t) }
    ELSE listActiveSessionsForEmail(tokenDoc.email, t)

VerifyTokenFailure_tellsExpired(diag) ==
    IF diag.isExpired THEN [status |-> 400, body |-> "Token expired."]
    ELSE [status |-> 400, body |-> INVALID_TOKEN_MESSAGE]

VerifyTokenFailure(diag) == [status |-> 400, body |-> INVALID_TOKEN_MESSAGE]

VerifyFinish(p) ==
    LET doc == procs[p].tokenDoc
        diag == logVerifyTokenDiagnostics(sha256Hex(procs[p].rawToken), procs[p].at, doc # NoDoc)
        req == [rawToken |-> procs[p].rawToken]
    IN
    /\ procs[p].pc = "vt_finish"
    /\ IF doc = NoDoc
       THEN /\ lastResp' = Resp("verifyToken", req, VerifyTokenFailure(diag).status,
                                VerifyTokenFailure(diag).body, diag)
            /\ UNCHANGED accessTokens
       ELSE /\ accessTokens' = Append(accessTokens,
                                      [payload |-> createAccessToken(doc),
                                       tokenHash |-> doc.tokenHash, createdAt |-> doc.createdAt])
            /\ lastResp' = Resp("verifyToken", req, 201,
                                [ok |-> TRUE, accessToken |-> createAccessToken(doc),
                                 sessions |-> getSessionsForToken(doc, now)], diag)
    /\ SetProc(p, Idle)
    /\ UNCHANGED <<now, hits, rlLog, sessions, tokens, outbox, files, storage>>

\* TTL index on email_tokens.expiresAt (expireAfterSeconds: 0)
TtlSweep ==
    /\ \E d \in tokens :
          /\ d.expiresAt <= now
          /\ tokens' = tokens \ {d}
    /\ UNCHANGED <<now, hits, rlLog, sessions, outbox, accessTokens, files, storage, procs, lastResp>>

\* ------------------------------------------------------------------------
\* Requesters: payloads of access tokens accepted by the JWT guard
\* ------------------------------------------------------------------------
Users ==
    { [email |-> e, sessionId |-> NoSid, type |-> "find_sessions"] : e \in Emails }
    \cup { [email |-> e, sessionId |-> s, type |-> "continue_session"] :
             e \in Emails, s \in SessionIds }

FileIds == 1..Len(files)

\* ------------------------------------------------------------------------
\* deleteActiveSessionById, split at its awaits
\* ------------------------------------------------------------------------
getOwnedSessionById(sid, user) ==
    IF user.sessionId # NoSid /\ user.sessionId # sid
    THEN [ok |-> FALSE, status |-> 403, body |-> SESSION_ACCESS_FORBIDDEN_MESSAGE]
    ELSE IF { s \in sessions : /\ s.sessionId = sid
                               /\ s.email = normalizeEmail(user.email)
                               /\ s.status # "deleted" } = {}
    THEN [ok |-> FALSE, status |-> 404, body |-> SESSION_NOT_FOUND_MESSAGE]
    ELSE [ok |-> TRUE, status |-> 200, body |-> ""]

DeleteSessionStart(p, sid, user) ==
    LET owned == getOwnedSessionById(sid, user)
        req == [sessionId |-> sid, user |-> user]
    IN
    /\ lastResp = NoResp
    /\ procs[p].pc = "idle"
    /\ IF ~owned.ok
       THEN /\ lastResp' = Resp("deleteSession", req, owned.status, owned.body, "denied")
            /\ UNCHANGED <<sessions, procs>>
       ELSE /\ sessions' = { IF s.sessionId = sid /\ s.email = user.email
                             THEN [s EXCEPT !.status = "deleted", !.deletedAt = now]
                             ELSE s : s \in sessions }
            /\ SetProc(p, [pc |-> "ds_find", sessionId |-> sid, user |-> user])
            /\ UNCHANGED lastResp
    /\ UNCHANGED <<now, hits, rlLog, tokens, outbox, accessTokens, files, storage>>

DeleteSessionFind(p) ==
    /\ lastResp = NoResp
    /\ procs[p].pc = "ds_find"
    /\ SetProc(p, [procs[p] EXCEPT !.pc = "ds_storage"] @@
                  [uploadedFiles |-> { i \in FileIds : /\ files[i].sessionId = procs[p].sessionId
                                                       /\ files[i].status = "uploaded" }])
    /\ UNCHANGED <<now, hits, rlLog, sessions, tokens, outbox, accessTokens, files, storage, lastResp>>

\* Promise.allSettled over deleteObject: every delete is issued; those in
\* failed reject and leave their object in the bucket.
SettledDeletes(uploadedFiles, failed) ==
    [attempted |-> uploadedFiles, rejected |-> failed]

MarkedFileIds_onlyDeletedObjects(uploadedFiles, settled) == uploadedFiles \ settled.rejected

MarkedFileIds(uploadedFiles, settled) == uploadedFiles

DeleteSessionStorage(p) ==
    /\ lastResp = NoResp
    /\ procs[p].pc = "ds_storage"
    /\ \E failed \in SUBSET procs[p].uploadedFiles :
          LET settled == SettledDeletes(procs[p].uploadedFiles, failed) IN
          /\ storage' = storage \ { files[i].s3Key : i \in settled.attempted \ settled.rejected }
          /\ SetProc(p, [procs[p] EXCEPT !.pc = "ds_mark"] @@ [settled |-> settled])
    /\ UNCHANGED <<now, hits, rlLog, sessions, tokens, outbox, accessTokens, files, lastResp>>

DeleteSessionMark(p) ==
    /\ lastResp = NoResp
    /\ procs[p].pc = "ds_mark"
    /\ files' = [i \in FileIds |->
                   IF i \in MarkedFileIds(procs[p].uploadedFiles, procs[p].settled)
                   THEN [files[i] EXCEPT !.status = "deleted", !.deletedAt = now]
                   ELSE files[i]]
    /\ lastResp' = Resp("deleteSession", [sessionId |-> procs[p].sessionId, user |-> procs[p].user],
                        200, [deleted |-> TRUE],
                        [uploadedFiles |-> procs[p].uploadedFiles] @@ procs[p].settled)
    /\ SetProc(p, Idle)
    /\ UNCHANGED <<now, hits, rlLog, sessions, tokens, outbox, accessTokens, storage>>

\* ------------------------------------------------------------------------
\* File names (sequences of characters) and storage keys
\* ------------------------------------------------------------------------
Str_statement_pdf == <<"s", "t", "a", "t", "e", "m", "e", "n", "t", ".", "p", "d", "f">>

toLowerCase(ch) ==
    CASE ch = "A" -> "a" [] ch = "B" -> "b" [] ch = "D" -> "d" [] ch = "F" -> "f"
      [] ch = "P" -> "p" [] OTHER -> ch

LowerSeq(str) == [i \in 1..Len(str) |-> toLowerCase(str[i])]

RECURSIVE trimStart(_)
trimStart(str) ==
    IF str # <<>> /\ Head(str) = " " THEN trimStart(Tail(str)) ELSE str

RECURSIVE trimEnd(_)
trimEnd(str) ==
    IF str # <<>> /\ str[Len(str)] = " " THEN trimEnd(SubSeq(str, 1, Len(str) - 1)) ELSE str

trim(str) == trimEnd(trimStart(str))

normalizeOriginalFileName(originalname) ==
    IF trim(originalname) = <<>> THEN Str_statement_pdf ELSE trim(originalname)

getFileNameKey(fileName) == LowerSeq(trim(fileName))

IsAlnum(ch) == ch \in {"a", "b", "d", "f", "p", "s", "t", "e", "m", "n", "1", "2"}

stripPdfExt(str) ==
    IF Len(str) >= 4 /\ LowerSeq(SubSeq(str, Len(str) - 3, Len(str))) = <<".", "p", "d", "f">>
    THEN SubSeq(str, 1, Len(str) - 4) ELSE str

\* replace(/[^a-z0-9]+/g, '-')
RECURSIVE dashRuns(_, _)
dashRuns(str, inRun) ==
    IF str = <<>> THEN <<>>
    ELSE IF IsAlnum(Head(str)) THEN <<Head(str)>> \o dashRuns(Tail(str), FALSE)
    ELSE IF inRun THEN dashRuns(Tail(str), TRUE)
    ELSE <<"-">> \o dashRuns(Tail(str), TRUE)

\* replace(/^-+|-+$/g, '')
RECURSIVE stripDashStart(_)
stripDashStart(str) ==
    IF str # <<>> /\ Head(str) = "-" THEN stripDashStart(Tail(str)) ELSE str

RECURSIVE stripDashEnd(_)
stripDashEnd(str) ==
    IF str # <<>> /\ str[Len(str)] = "-" THEN stripDashEnd(SubSeq(str, 1, Len(str) - 1)) ELSE str

slice(str, start, end) == SubSeq(str, start + 1, IF Len(str) < end THEN Len(str) ELSE end)

sanitizeFileName(originalName) ==
    LET withoutPdfExt == stripPdfExt(originalName)
        sanitized == slice(stripDashEnd(stripDashStart(dashRuns(
                               LowerSeq(trim(withoutPdfExt)), FALSE))), 0, 80)
    IN IF sanitized = <<>> THEN <<"s", "t", "a", "t", "e", "m", "e", "n", "t">> ELSE sanitized

buildS3Key(sessionId, category, fileId, originalName) ==
    <<"sessions", sessionId, IF category = "unfiled" THEN "root" ELSE category,
      fileId, sanitizeFileName(originalName), ".pdf">>

\* ------------------------------------------------------------------------
\* Statement type detection
\* ------------------------------------------------------------------------
StatementTypes == {"credit", "checking", "savings", "unknown"}
KnownTypes == <<"credit", "checking", "savings">>

STATEMENT_KEYWORDS ==
    [credit |-> << <<"credit", "card">>, <<"minimum", "payment">>,
                   <<"statement", "balance">>, <<"credit", "limit">> >>,
     checking |-> << <<"checking", "account">>, <<"deposits">>, <<"withdrawals">> >>,
     savings |-> << <<"savings", "account">>, <<"interest", "earned">> >>]

STATEMENT_TYPE_PRIORITY == [credit |-> 3, checking |-> 2, savings |-> 1]

CATEGORY_FROM_STATEMENT ==
    [credit |-> "credit", checking |-> "checking", savings |-> "savings", unknown |-> "unknown"]

MatchesAt_firstWordOnly(text, keyword, index) ==
    /\ index <= Len(text)
    /\ text[index] = keyword[1]

MatchesAt(text, keyword, index) ==
    /\ index + Len(keyword) - 1 <= Len(text)
    /\ SubSeq(text, index, index + Len(keyword) - 1) = keyword

\* text.indexOf(keyword, fromIndex), 1-based; 0 when absent
indexOf(text, keyword, fromIndex) ==
    LET found == { i \in fromIndex..Len(text) : MatchesAt(text, keyword, i) } IN
    IF found = {} THEN 0 ELSE CHOOSE i \in found : \A j \in found : i <= j

includes(text, keyword) == indexOf(text, keyword, 1) # 0

RECURSIVE countFrom(_, _, _)
countFrom(text, keyword, fromIndex) ==
    IF fromIndex > Len(text) THEN 0
    ELSE LET index == indexOf(text, keyword, fromIndex) IN
         IF index = 0 THEN 0 ELSE 1 + countFrom(text, keyword, index + Len(keyword))

countKeywordOccurrences(text, keyword) == countFrom(text, keyword, 1)

RECURSIVE SumSeq(_)
SumSeq(ns) == IF ns = <<>> THEN 0 ELSE Head(ns) + SumSeq(Tail(ns))

KeywordEntry(text, type) ==
    LET keywords == STATEMENT_KEYWORDS[type] IN
    [type |-> type,
     uniqueKeywordMatches |->
        SumSeq([i \in 1..Len(keywords) |-> IF includes(text, keywords[i]) THEN 1 ELSE 0]),
     mentionScore |->
        SumSeq([i \in 1..Len(keywords) |-> countKeywordOccurrences(text, keywords[i])]),
     totalKeywords |-> Len(keywords)]

CompareCandidates_skipsCoverage(a, b) ==
    IF b.uniqueKeywordMatches # a.uniqueKeywordMatches
    THEN b.uniqueKeywordMatches - a.uniqueKeywordMatches
    ELSE IF b.mentionScore # a.mentionScore
    THEN b.mentionScore - a.mentionScore
    ELSE STATEMENT_TYPE_PRIORITY[b.type] - STATEMENT_TYPE_PRIORITY[a.type]

CompareCandidates_skipsMentions(a, b) ==
    IF b.uniqueKeywordMatches # a.uniqueKeywordMatches
    THEN b.uniqueKeywordMatches - a.uniqueKeywordMatches
    ELSE IF b.uniqueKeywordMatches * a.totalKeywords # a.uniqueKeywordMatches * b.totalKeywords
    THEN b.uniqueKeywordMatches * a.totalKeywords - a.uniqueKeywordMatches * b.totalKeywords
    ELSE STATEMENT_TYPE_PRIORITY[b.type] - STATEMENT_TYPE_PRIORITY[a.type]

\* the sort comparator: negative when a sorts before b
CompareCandidates(a, b) ==
    IF b.uniqueKeywordMatches # a.uniqueKeywordMatches
    THEN b.uniqueKeywordMatches - a.uniqueKeywordMatches
    ELSE IF b.mentionScore # a.mentionScore
    THEN b.mentionScore - a.mentionScore
    ELSE IF b.uniqueKeywordMatches * a.totalKeywords # a.uniqueKeywordMatches * b.totalKeywords
    THEN b.uniqueKeywordMatches * a.totalKeywords - a.uniqueKeywordMatches * b.totalKeywords
    ELSE STATEMENT_TYPE_PRIORITY[b.type] - STATEMENT_TYPE_PRIORITY[a.type]

RoundedConfidence_truncated(u, n) == IF n > 0 THEN (100 * u) \div n ELSE 0

\* Number((u / n).toFixed(2)), in hundredths
RoundedConfidence(u, n) == IF n > 0 THEN (200 * u + n) \div (2 * n) ELSE 0

UnknownDetection_likely ==
    [autoDetectedType |-> "unknown", detectionConfidence |-> 0, isLikelyStatement |-> TRUE]

UnknownDetection ==
    [autoDetectedType |-> "unknown", detectionConfidence |-> 0, isLikelyStatement |-> FALSE]

detectStatementTypeFromText(text) ==
    IF text = <<>> THEN UnknownDetection
    ELSE LET entries == { KeywordEntry(text, KnownTypes[i]) : i \in 1..Len(KnownTypes) }
             candidates == { e \in entries : e.uniqueKeywordMatches > 0 \/ e.mentionScore > 0 }
         IN IF candidates = {} THEN UnknownDetection
            ELSE LET winner == CHOOSE c \in candidates :
                                  \A o \in candidates \ {c} : CompareCandidates(c, o) < 0
                 IN [autoDetectedType |-> winner.type,
                     detectionConfidence |->
                        RoundedConfidence(winner.uniqueKeywordMatches, winner.totalKeywords),
                     isLikelyStatement |-> TRUE]

\* ------------------------------------------------------------------------
\* FilesService: access checks
\* ------------------------------------------------------------------------
ALLOWED_MIME_TYPE == "application/pdf"
DUPLICATE_FILE_NAME_REASON == "A file with this name already exists in this session."
FILE_UPLOAD_FAILED_MESSAGE == "Failed to upload file to storage."
S3_BUCKET_NAME == "balance-bucket"

getMaxFilesPerUpload == IF MaxFilesPerUpload > 0 THEN MaxFilesPerUpload ELSE DEFAULT_MAX_FILES_PER_UPLOAD
getMaxFileSizeMb == DEFAULT_MAX_FILE_SIZE_MB
getMaxFileSizeBytes == getMaxFileSizeMb * 1024 * 1024

SessionQuery_anyOwner(sid, email, requireActive, t) ==
    { s \in sessions :
        /\ s.sessionId = sid
        /\ IF requireActive THEN s.status = "active" /\ s.expiresAt > t
                            ELSE s.status # "deleted" }

SessionQuery(sid, email, requireActive, t) ==
    { s \in sessions :
        /\ s.sessionId = sid
        /\ s.email = email
        /\ IF requireActive THEN s.status = "active" /\ s.expiresAt > t
                            ELSE s.status # "deleted" }

assertSessionAccess_alwaysForbidden(sid, user, requireActive, t) ==
    LET email == normalizeEmail(user.email)
        found == SessionQuery(sid, email, requireActive, t)
    IN IF email = "" \/ (user.sessionId # NoSid /\ user.sessionId # sid) \/ found = {}
       THEN [ok |-> FALSE, status |-> 403, body |-> SESSION_ACCESS_FORBIDDEN_MESSAGE]
       ELSE [ok |-> TRUE, status |-> 200, body |-> "", session |-> CHOOSE s \in found : TRUE]

assertSessionAccess(sid, user, requireActive, t) ==
    LET email == normalizeEmail(user.email)
        found == SessionQuery(sid, email, requireActive, t)
    IN IF email = ""
       THEN [ok |-> FALSE, status |-> 403, body |-> SESSION_ACCESS_FORBIDDEN_MESSAGE]
       ELSE IF user.sessionId # NoSid /\ user.sessionId # sid
       THEN [ok |-> FALSE, status |-> 403, body |-> SESSION_ACCESS_FORBIDDEN_MESSAGE]
       ELSE IF found = {}
       THEN [ok |-> FALSE, status |-> 404, body |-> SESSION_NOT_FOUND_MESSAGE]
       ELSE [ok |-> TRUE, status |-> 200, body |-> "", session |-> CHOOSE s \in found : TRUE]

getAccessibleFile(fileId) ==
    IF fileId \in FileIds /\ files[fileId].status # "deleted"
    THEN [ok |-> TRUE, status |-> 200, body |-> ""]
    ELSE [ok |-> FALSE, status |-> 404, body |-> FILE_NOT_FOUND_MESSAGE]

\* getAccessibleFile followed by assertSessionAccess(file.sessionId, user, false)
FileAccess(fileId, user, t) ==
    IF ~getAccessibleFile(fileId).ok THEN getAccessibleFile(fileId)
    ELSE assertSessionAccess(files[fileId].sessionId, user, FALSE, t)

normalizeFileCategory_neverUnfiled(category) ==
    IF category \in {"credit", "checking", "savings", "unknown"} THEN category ELSE "unknown"

normalizeFileCategory(category) ==
    IF category \in {"credit", "checking", "savings", "unknown", "unfiled"}
    THEN category ELSE "unfiled"

resolveUploadCategory_alwaysFromType(statementType, session) ==
    CATEGORY_FROM_STATEMENT[statementType]

resolveUploadCategory(statementType, session) ==
    IF ~session.autoCategorizeOnUpload THEN "unfiled" ELSE CATEGORY_FROM_STATEMENT[statementType]

getStatementTypeForMoveCategory_alwaysTarget(category) ==
    category

getStatementTypeForMoveCategory(category) ==
    IF category \in {"credit", "checking", "savings", "unknown"} THEN category ELSE "none"

buildStatementTypeByFileNameKey_exactName(statementTypeByName, fileNameKey) ==
    LET matching == { i \in 1..Len(statementTypeByName) :
                        statementTypeByName[i].fileName = fileNameKey }
    IN IF matching = {} THEN "unknown"
       ELSE statementTypeByName[CHOOSE i \in matching : \A j \in matching : j <= i].statementType

\* the last entry of the metadata map whose key matches wins (Map.set overwrites)
buildStatementTypeByFileNameKey(statementTypeByName, fileNameKey) ==
    LET matching == { i \in 1..Len(statementTypeByName) :
                        getFileNameKey(statementTypeByName[i].fileName) = fileNameKey }
    IN IF matching = {} THEN "unknown"
       ELSE statementTypeByName[CHOOSE i \in matching : \A j \in matching : j <= i].statementType

getExistingFileNameKeys_uploadedOnly(sid) ==
    { getFileNameKey(files[i].originalName) :
        i \in { j \in FileIds : /\ files[j].sessionId = sid
                                /\ files[j].status = "uploaded"
                                /\ files[j].originalName # <<>> } }

getExistingFileNameKeys(sid) ==
    { getFileNameKey(files[i].originalName) :
        i \in { j \in FileIds : /\ files[j].sessionId = sid
                                /\ files[j].status # "deleted"
                                /\ files[j].originalName # <<>> } }

\* ------------------------------------------------------------------------
\* FilesService / SessionsService: single-step operations
\* ------------------------------------------------------------------------
getActiveSessionById(sid, user, t) ==
    IF user.sessionId # NoSid /\ user.sessionId # sid
    THEN [ok |-> FALSE, status |-> 403, body |-> SESSION_ACCESS_FORBIDDEN_MESSAGE]
    ELSE IF findActiveSessionByIdAndEmail(sid, user.email, t) = {}
    THEN [ok |-> FALSE, status |-> 404, body |-> SESSION_NOT_FOUND_MESSAGE]
    ELSE [ok |-> TRUE, status |-> 200,
          body |-> { s.sessionId : s \in findActiveSessionByIdAndEmail(sid, user.email, t) }]

GetSession(sid, user) ==
    LET req == [sessionId |-> sid, user |-> user]
        found == getActiveSessionById(sid, user, now)
    IN
    /\ lastResp = NoResp
    /\ lastResp' = Resp("getSession", req, found.status, found.body,
                        IF found.ok THEN "ok" ELSE "denied")
    /\ UNCHANGED <<now, hits, rlLog, sessions, tokens, outbox, accessTokens, files, storage, procs>>

ListSessionFiles(sid, user) ==
    LET req == [sessionId |-> sid, user |-> user]
        access == assertSessionAccess(sid, user, FALSE, now)
    IN
    /\ lastResp = NoResp
    /\ lastResp' =
         IF ~access.ok THEN Resp("listFiles", req, access.status, access.body, "denied")
         ELSE Resp("listFiles", req, 200,
                   { i \in FileIds : files[i].sessionId = sid /\ files[i].status # "deleted" }, "ok")
    /\ UNCHANGED <<now, hits, rlLog, sessions, tokens, outbox, accessTokens, files, storage, procs>>

UpdateFileStatementType_rebuildsKey(fileId, statementType, user) ==
    LET req == [fileId |-> fileId, user |-> user, statementType |-> statementType]
        access == FileAccess(fileId, user, now)
        category == IF normalizeFileCategory(files[fileId].category) # "unfiled"
                    THEN CATEGORY_FROM_STATEMENT[statementType] ELSE files[fileId].category
    IN
    /\ lastResp = NoResp
    /\ IF ~access.ok
       THEN /\ lastResp' = Resp("updateFile", req, access.status, access.body, "denied")
            /\ UNCHANGED files
       ELSE /\ files' = [files EXCEPT
                           ![fileId].statementType = statementType,
                           ![fileId].category = category,
                           ![fileId].s3Key = buildS3Key(files[fileId].sessionId, category,
                                                        fileId, files[fileId].originalName),
                           ![fileId].confirmedByUser = TRUE]
            /\ lastResp' = Resp("updateFile", req, 200,
                                [id |-> fileId, statementType |-> statementType,
                                 confirmedByUser |-> TRUE], "ok")
    /\ UNCHANGED <<now, hits, rlLog, sessions, tokens, outbox, accessTokens, storage, procs>>

UpdateFileStatementType(fileId, statementType, user) ==
    LET req == [fileId |-> fileId, user |-> user, statementType |-> statementType]
        access == FileAccess(fileId, user, now)
    IN
    /\ lastResp = NoResp
    /\ IF ~access.ok
       THEN /\ lastResp' = Resp("updateFile", req, access.status, access.body, "denied")
            /\ UNCHANGED files
       ELSE /\ files' = [files EXCEPT
                           ![fileId].statementType = statementType,
                           ![fileId].category =
                               IF normalizeFileCategory(@) # "unfiled"
                               THEN CATEGORY_FROM_STATEMENT[statementType] ELSE @,
                           ![fileId].confirmedByUser = TRUE]
            /\ lastResp' = Resp("updateFile", req, 200,
                                [id |-> fileId, statementType |-> statementType,
                                 confirmedByUser |-> TRUE], "ok")
    /\ UNCHANGED <<now, hits, rlLog, sessions, tokens, outbox, accessTokens, storage, procs>>

DeleteFile_bestEffort(fileId, user) ==
    LET req == [fileId |-> fileId, user |-> user]
        access == FileAccess(fileId, user, now)
    IN
    /\ lastResp = NoResp
    /\ IF ~access.ok
       THEN /\ lastResp' = Resp("deleteFile", req, access.status, access.body, "denied")
            /\ UNCHANGED <<files, storage>>
       ELSE \E storageOk \in BOOLEAN :
              /\ storage' = IF storageOk THEN storage \ {files[fileId].s3Key} ELSE storage
              /\ files' = [files EXCEPT ![fileId].status = "deleted",
                                        ![fileId].deletedAt = now]
              /\ lastResp' = Resp("deleteFile", req, 200,
                                  [deleted |-> TRUE, fileId |-> fileId], "ok")
    /\ UNCHANGED <<now, hits, rlLog, sessions, tokens, outbox, accessTokens, procs>>

DeleteFile(fileId, user) ==
    LET req == [fileId |-> fileId, user |-> user]
        access == FileAccess(fileId, user, now)
    IN
    /\ lastResp = NoResp
    /\ IF ~access.ok
       THEN /\ lastResp' = Resp("deleteFile", req, access.status, access.body, "denied")
            /\ UNCHANGED <<files, storage>>
       ELSE \E storageOk \in BOOLEAN :
              IF storageOk
              THEN /\ storage' = storage \ {files[fileId].s3Key}
                   /\ files' = [files EXCEPT ![fileId].status = "deleted",
                                             ![fileId].deletedAt = now]
                   /\ lastResp' = Resp("deleteFile", req, 200,
                                       [deleted |-> TRUE, fileId |-> fileId], "ok")
              ELSE /\ lastResp' = Resp("deleteFile", req, 500, "Internal server error",
                                       "storage-error")
                   /\ UNCHANGED <<files, storage>>
    /\ UNCHANGED <<now, hits, rlLog, sessions, tokens, outbox, accessTokens, procs>>

MoveFilesToCategory(sid, fileIds, category, user) ==
    LET req == [sessionId |-> sid, user |-> user, fileIds |-> fileIds, category |-> category]
        access == assertSessionAccess(sid, user, FALSE, now)
        targetStatementType == getStatementTypeForMoveCategory(category)
        matched == { i \in fileIds \cap FileIds :
                       files[i].sessionId = sid /\ files[i].status # "deleted" }
        moved(f) == [f EXCEPT !.category = category,
                              !.confirmedByUser = TRUE,
                              !.statementType = IF targetStatementType # "none"
                                                THEN targetStatementType ELSE @]
    IN
    /\ lastResp = NoResp
    /\ IF fileIds = {}
       THEN /\ lastResp' = Resp("moveFiles", req, 400, FILES_MOVE_EMPTY_MESSAGE, "empty")
            /\ UNCHANGED files
       ELSE IF ~access.ok
       THEN /\ lastResp' = Resp("moveFiles", req, access.status, access.body, "denied")
            /\ UNCHANGED files
       ELSE /\ files' = [i \in FileIds |-> IF i \in matched THEN moved(files[i]) ELSE files[i]]
            /\ lastResp' = Resp("moveFiles", req, 200,
                                [movedCount |-> Cardinality({ i \in matched :
                                                   moved(files[i]) # files[i] }),
                                 category |-> category], "ok")
    /\ UNCHANGED <<now, hits, rlLog, sessions, tokens, outbox, accessTokens, storage, procs>>

GetRawFile(fileId, user) ==
    LET req == [fileId |-> fileId, user |-> user]
        access == FileAccess(fileId, user, now)
    IN
    /\ lastResp = NoResp
    /\ lastResp' =
         IF ~access.ok THEN Resp("getRawFile", req, access.status, access.body, "denied")
         ELSE IF files[fileId].s3Key \notin storage
         THEN Resp("getRawFile", req, 500, "Internal server error", "storage-error")
         ELSE Resp("getRawFile", req, 200,
                   [fileName |-> files[fileId].originalName,
                    mimeType |-> files[fileId].mimeType], "ok")
    /\ UNCHANGED <<now, hits, rlLog, sessions, tokens, outbox, accessTokens, files, storage, procs>>

\* ------------------------------------------------------------------------
\* uploadFilesToSession, split at its awaits
\* ------------------------------------------------------------------------
MultipartFile(originalname, mimetype, size, hasBuffer, text) ==
    [originalname |-> originalname, mimetype |-> mimetype, size |-> size,
     buffer |-> hasBuffer, text |-> text]

\* extractPdfText: the lower-cased text of the document, '' when parsing fails
extractPdfText(file) == file.text

detectStatementTypeFromPdf(file) == detectStatementTypeFromText(extractPdfText(file))

Rejection(originalName, reason) == [originalName |-> originalName, reason |-> reason]

UploadStart(p, sid, user, normalizedFiles, statementTypeByName) ==
    LET req == [sessionId |-> sid, user |-> user, files |-> normalizedFiles,
                statementTypeByName |-> statementTypeByName]
        access == assertSessionAccess(sid, user, TRUE, now)
        maxFiles == getMaxFilesPerUpload
        acceptedBatch == slice(normalizedFiles, 0, maxFiles)
        skippedBatch == SubSeq(normalizedFiles, Len(acceptedBatch) + 1, Len(normalizedFiles))
    IN
    /\ lastResp = NoResp
    /\ procs[p].pc = "idle"
    /\ IF normalizedFiles = <<>>
       THEN /\ lastResp' = Resp("uploadFiles", req, 400,
                                "At least one file must be provided.", "empty")
            /\ UNCHANGED procs
       ELSE IF ~access.ok
       THEN /\ lastResp' = Resp("uploadFiles", req, access.status, access.body, "denied")
            /\ UNCHANGED procs
       ELSE /\ SetProc(p, [pc |-> "up_keys", sessionId |-> sid, user |-> user,
                           session |-> access.session,
                           normalizedFiles |-> normalizedFiles,
                           acceptedBatch |-> acceptedBatch,
                           statementTypeByName |-> statementTypeByName,
                           i |-> 1, fileNameKeysInSession |-> {}, fileId |-> 0,
                           uploaded |-> <<>>,
                           rejected |-> [k \in 1..Len(skippedBatch) |->
                                           Rejection(skippedBatch[k].originalname,
                                                     <<"Exceeded max file count", maxFiles>>)],
                           warnings |-> <<>>])
            /\ UNCHANGED lastResp
    /\ UNCHANGED <<now, hits, rlLog, sessions, tokens, outbox, accessTokens, files, storage>>

UploadKeys(p) ==
    /\ lastResp = NoResp
    /\ procs[p].pc = "up_keys"
    /\ SetProc(p, [procs[p] EXCEPT !.pc = "up_file",
                                   !.fileNameKeysInSession =
                                       getExistingFileNameKeys(procs[p].sessionId)])
    /\ UNCHANGED <<now, hits, rlLog, sessions, tokens, outbox, accessTokens, files, storage, lastResp>>

UploadRequest(p) ==
    [sessionId |-> procs[p].sessionId, user |-> procs[p].user,
     files |-> procs[p].normalizedFiles,
     statementTypeByName |-> procs[p].statementTypeByName]

UploadReturn(p) ==
    Resp("uploadFiles", UploadRequest(p), 201,
         [uploaded |-> procs[p].uploaded, rejected |-> procs[p].rejected,
          warnings |-> procs[p].warnings], "ok")

UploadRejectReason_namesNotCompared(file, fileNameKey, fileNameKeysInSession) ==
    IF file.mimetype # ALLOWED_MIME_TYPE THEN "Only application/pdf files are accepted."
    ELSE IF file.size > getMaxFileSizeBytes THEN "File exceeds max size."
    ELSE IF ~file.buffer THEN "File payload is missing."
    ELSE ""

UploadRejectReason_noMimeCheck(file, fileNameKey, fileNameKeysInSession) ==
    IF fileNameKey \in fileNameKeysInSession THEN DUPLICATE_FILE_NAME_REASON
    ELSE IF file.size > getMaxFileSizeBytes THEN "File exceeds max size."
    ELSE IF ~file.buffer THEN "File payload is missing."
    ELSE ""

\* why the file is turned away before anything is stored, "" when it is not
UploadRejectReason(file, fileNameKey, fileNameKeysInSession) ==
    IF fileNameKey \in fileNameKeysInSession THEN DUPLICATE_FILE_NAME_REASON
    ELSE IF file.mimetype # ALLOWED_MIME_TYPE THEN "Only application/pdf files are accepted."
    ELSE IF file.size > getMaxFileSizeBytes THEN "File exceeds max size."
    ELSE IF ~file.buffer THEN "File payload is missing."
    ELSE ""

\* the document built by `new this.filesModel({...})` with its storage key
NewFileRecord(sid, session, file, statementTypeByName, fileId) ==
    LET originalName == normalizeOriginalFileName(file.originalname)
        fileNameKey == getFileNameKey(originalName)
        detection == detectStatementTypeFromPdf(file)
        requestedStatementType == buildStatementTypeByFileNameKey(statementTypeByName, fileNameKey)
        statementType == IF requestedStatementType = "unknown"
                         THEN detection.autoDetectedType ELSE requestedStatementType
        category == resolveUploadCategory(statementType, session)
    IN [sessionId |-> sid,
        originalName |-> originalName,
        mimeType |-> file.mimetype,
        size |-> file.size,
        statementType |-> statementType,
        category |-> category,
        autoDetectedType |-> detection.autoDetectedType,
        detectionConfidence |-> detection.detectionConfidence,
        isLikelyStatement |-> detection.isLikelyStatement,
        confirmedByUser |-> FALSE,
        status |-> "pending",
        s3Bucket |-> S3_BUCKET_NAME,
        s3Key |-> buildS3Key(sid, category, fileId, originalName),
        deletedAt |-> NULL]

\* the validators save() runs on a file document: size has min 1
FileSchemaValid(record) ==
    record.size >= 1

\* one turn of the loop up to the first save(): validation, detection, insert;
\* the first save() is outside the try block, so its validation error ends the request
UploadFile(p) ==
    /\ lastResp = NoResp
    /\ procs[p].pc = "up_file"
    /\ IF procs[p].i > Len(procs[p].acceptedBatch)
       THEN /\ lastResp' = UploadReturn(p)
            /\ SetProc(p, Idle)
            /\ UNCHANGED files
       ELSE LET file == procs[p].acceptedBatch[procs[p].i]
                originalName == normalizeOriginalFileName(file.originalname)
                fileNameKey == getFileNameKey(originalName)
                reason == UploadRejectReason(file, fileNameKey, procs[p].fileNameKeysInSession)
                fileId == Len(files) + 1
                fileRecord == NewFileRecord(procs[p].sessionId, procs[p].session, file,
                                            procs[p].statementTypeByName, fileId)
            IN IF reason # ""
               THEN /\ SetProc(p, [procs[p] EXCEPT
                                     !.i = @ + 1,
                                     !.rejected = Append(@, Rejection(originalName, reason))])
                    /\ UNCHANGED <<files, lastResp>>
               ELSE IF ~FileSchemaValid(fileRecord)
               THEN /\ lastResp' = Resp("uploadFiles", UploadRequest(p), 500,
                                        "Internal server error", "validation-error")
                    /\ SetProc(p, Idle)
                    /\ UNCHANGED files
               ELSE /\ Len(files) < MaxFiles
                    /\ files' = Append(files, fileRecord)
                    /\ SetProc(p, [procs[p] EXCEPT
                                     !.pc = "up_store", !.fileId = fileId,
                                     !.fileNameKeysInSession = @ \cup {fileNameKey}])
                    /\ UNCHANGED lastResp
    /\ UNCHANGED <<now, hits, rlLog, sessions, tokens, outbox, accessTokens, storage>>

\* the error text is searched for the marks of the known storage faults
getUploadFailureReason(error) ==
    IF error = "nosuchbucket" THEN "S3 bucket was not found. Verify S3_BUCKET_NAME."
    ELSE IF error \in {"accessdenied", "invalidaccesskeyid", "signaturedoesnotmatch",
                       "not authorized", "forbidden"}
    THEN "S3 credentials are invalid or missing PutObject permission."
    ELSE IF error \in {"authorizationheadermalformed", "permanentredirect", "wrong region"}
    THEN "S3 region does not match the bucket region."
    ELSE IF error \in {"timeout", "econnrefused", "enotfound", "network", "socket"}
    THEN "Unable to reach S3 from the API runtime."
    ELSE FILE_UPLOAD_FAILED_MESSAGE

\* storageService.uploadObject; on failure the catch block marks the record rejected
UploadStore(p, outcome) ==
    /\ lastResp = NoResp
    /\ procs[p].pc = "up_store"
    /\ IF outcome = "stored"
       THEN /\ storage' = storage \cup {files[procs[p].fileId].s3Key}
            /\ SetProc(p, [procs[p] EXCEPT !.pc = "up_mark"])
            /\ UNCHANGED files
       ELSE /\ files' = [files EXCEPT ![procs[p].fileId].status = "rejected"]
            /\ SetProc(p, [procs[p] EXCEPT
                             !.pc = "up_file", !.i = @ + 1,
                             !.rejected = Append(@, Rejection(files[procs[p].fileId].originalName,
                                                              getUploadFailureReason(outcome)))])
            /\ UNCHANGED storage
    /\ UNCHANGED <<now, hits, rlLog, sessions, tokens, outbox, accessTokens, lastResp>>

\* the second save(): status uploaded, then the response entries
UploadMark(p) ==
    LET fileId == procs[p].fileId IN
    /\ lastResp = NoResp
    /\ procs[p].pc = "up_mark"
    /\ files' = [files EXCEPT ![fileId].status = "uploaded"]
    /\ SetProc(p, [procs[p] EXCEPT
                     !.pc = "up_file", !.i = @ + 1,
                     !.uploaded = Append(@, fileId),
                     !.warnings = IF files[fileId].isLikelyStatement THEN @
                                  ELSE Append(@, files[fileId].originalName)])
    /\ UNCHANGED <<now, hits, rlLog, sessions, tokens, outbox, accessTokens, storage, lastResp>>

DetectFilesForSession(sid, user, detectFiles) ==
    LET req == [sessionId |-> sid, user |-> user, files |-> detectFiles]
        access == assertSessionAccess(sid, user, TRUE, now)
        preview(file) ==
            IF file.mimetype # ALLOWED_MIME_TYPE \/ ~file.buffer
            THEN [originalName |-> normalizeOriginalFileName(file.originalname)] @@ UnknownDetection
            ELSE [originalName |-> normalizeOriginalFileName(file.originalname)]
                   @@ detectStatementTypeFromPdf(file)
    IN
    /\ lastResp = NoResp
    /\ lastResp' =
         IF ~access.ok THEN Resp("detectFiles", req, access.status, access.body, "denied")
         ELSE Resp("detectFiles", req, 201,
                   [k \in 1..Len(detectFiles) |-> preview(detectFiles[k])], "ok")
    /\ UNCHANGED <<now, hits, rlLog, sessions, tokens, outbox, accessTokens, files, storage, procs>>

\* ------------------------------------------------------------------------
\* Rate limiter on its own
\* ------------------------------------------------------------------------
NextRate ==
    \/ Tick(HalfWindow)
    \/ \E ip \in Ips : RateLimitCall("request-link", ip, "a@x.com")

SpecRate == Init /\ [][NextRate]_vars

\* ------------------------------------------------------------------------
\* Stored documents a run may start from (the database outlives the process)
\* ------------------------------------------------------------------------
SessionDoc(sid, email, status, expiresAt, deletedAt) ==
    [sessionId |-> sid, email |-> email, status |-> status, expiresAt |-> expiresAt,
     deletedAt |-> deletedAt, autoCategorizeOnUpload |-> TRUE]

StoredSessions ==
    { {},
      {SessionDoc("AAAAAAA2", "a@x.com", "active", SessionTtl, NULL)},
      {SessionDoc("AAAAAAA2", "a@x.com", "active", MagicLinkTtl, NULL),
       SessionDoc("BBBBBBB3", "b@x.com", "active", SessionTtl, NULL)},
      {SessionDoc("AAAAAAA2", "a@x.com", "deleted", SessionTtl, 0),
       SessionDoc("BBBBBBB3", "a@x.com", "active", MagicLinkTtl, NULL)} }

TokenDoc(raw, email, sid, purpose, createdAt) ==
    [tokenHash |-> sha256Hex(raw), email |-> email, sessionId |-> sid, purpose |-> purpose,
     createdAt |-> createdAt, usedAt |-> NULL, expiresAt |-> createdAt + MagicLinkTtl]

StoredTokens ==
    SUBSET { TokenDoc("t1", "a@x.com", "AAAAAAA2", "continue_session", 0),
             TokenDoc("t2", "a@x.com", NoSid, "find_sessions", 0) }

InitWith(storedSessions, storedTokens) ==
    /\ now = 0
    /\ hits = [k \in RateKeys |-> <<>>]
    /\ rlLog = <<>>
    /\ sessions \in storedSessions
    /\ tokens \in storedTokens
    /\ outbox = {}
    /\ accessTokens = <<>>
    /\ files = <<>>
    /\ storage = {}
    /\ procs = [p \in Procs |-> Idle]
    /\ lastResp = NoResp

\* ------------------------------------------------------------------------
\* Magic-link requests behind the rate limiter
\* ------------------------------------------------------------------------
InitRequest == InitWith(StoredSessions, {{}})

NextRequest ==
    \/ Tick(MagicLinkTtl)
    \/ TtlSweep
    \/ \E sid \in SessionIds : RequestLink("a@x.com", sid, NoIp)
    \/ \E e \in {"a@x.com", " A@X.com "} : RequestSessions(e, NoIp)

SpecRequest == InitRequest /\ [][NextRequest]_vars

\* ------------------------------------------------------------------------
\* Token verification
\* ------------------------------------------------------------------------
InitVerify == InitWith(StoredSessions, StoredTokens)

NextVerify ==
    \/ Tick(HalfWindow)
    \/ TtlSweep
    \/ \E p \in Procs, r \in RawTokens : VerifyConsume(p, r)
    \/ \E p \in Procs : VerifyFinish(p)

SpecVerify == InitVerify /\ [][NextVerify]_vars

\* ------------------------------------------------------------------------
\* Sessions, files and object storage
\* ------------------------------------------------------------------------
TextCredit == <<"credit", "card", "statement", "balance", "credit", "card">>
TextNone == <<"grocery", "list">>

PdfA == MultipartFile(<<"a", ".", "p", "d", "f">>, ALLOWED_MIME_TYPE, 1024, TRUE, TextCredit)
PdfAUpper == MultipartFile(<<" ", "A", ".", "P", "D", "F">>, ALLOWED_MIME_TYPE, 1024, TRUE, TextNone)
PdfB == MultipartFile(<<"b", ".", "p", "d", "f">>, ALLOWED_MIME_TYPE, 1024, TRUE, <<>>)
PdfD == MultipartFile(<<"d", ".", "p", "d", "f">>, ALLOWED_MIME_TYPE, 1024, TRUE, TextNone)
TxtFile == MultipartFile(<<"n", ".", "t", "t">>, "text/plain", 1024, TRUE, TextNone)

StorageOutcomes == {"stored", "nosuchbucket", "unexpected"}

UploadBatches == { <<>>, <<PdfAUpper, PdfD, TxtFile>> }

UploadHints == { <<[fileName |-> <<"D", ".", "p", "d", "f">>, statementType |-> "savings"]>> }

FileUsers ==
    { [email |-> "a@x.com", sessionId |-> NoSid, type |-> "find_sessions"],
      [email |-> "a@x.com", sessionId |-> "BBBBBBB3", type |-> "continue_session"],
      [email |-> "b@x.com", sessionId |-> NoSid, type |-> "find_sessions"] }

FileSessions ==
    { SessionDoc("AAAAAAA2", "a@x.com", "active", SessionTtl, NULL),
      SessionDoc("BBBBBBB3", "a@x.com", "active", SessionTtl, NULL) }

\* documents an earlier upload to the first session left behind
StoredFile(fileId, file) ==
    [NewFileRecord("AAAAAAA2", SessionDoc("AAAAAAA2", "a@x.com", "active", SessionTtl, NULL),
                   file, <<>>, fileId) EXCEPT !.status = "uploaded"]

StoredFiles == { <<StoredFile(1, PdfA), StoredFile(2, PdfB)>> }

InitFiles ==
    /\ now = 0
    /\ hits = [k \in RateKeys |-> <<>>]
    /\ rlLog = <<>>
    /\ sessions = FileSessions
    /\ tokens = {}
    /\ outbox = {}
    /\ accessTokens = <<>>
    /\ files \in StoredFiles
    /\ storage = { files[i].s3Key : i \in 1..Len(files) }
    /\ procs = [p \in Procs |-> Idle]
    /\ lastResp = NoResp

\* the response of a finished request leaves the server
SendResponse ==
    /\ lastResp # NoResp
    /\ lastResp' = NoResp
    /\ UNCHANGED <<now, hits, rlLog, sessions, tokens, outbox, accessTokens, files, storage, procs>>

NextFiles ==
    \/ SendResponse
    \/ (now < SessionTtl /\ Tick(SessionTtl))
    \/ \E sid \in {"AAAAAAA2"}, user \in FileUsers :
         \/ GetSession(sid, user)
         \/ ListSessionFiles(sid, user)
         \/ DetectFilesForSession(sid, user, <<PdfA, TxtFile>>)
         \/ \E fileIds \in {{}, {2}} : MoveFilesToCategory(sid, fileIds, "unfiled", user)
         \/ DeleteSessionStart("p2", sid, user)
         \/ \E batch \in UploadBatches, hints \in UploadHints :
              UploadStart("p1", sid, user, batch, hints)
    \/ \E fileId \in {1, MaxFiles}, user \in FileUsers :
         \/ UpdateFileStatementType(fileId, "checking", user)
         \/ DeleteFile(fileId, user)
         \/ GetRawFile(fileId, user)
    \/ \E p \in Procs :
         \/ UploadKeys(p)
         \/ UploadFile(p)
         \/ \E outcome \in StorageOutcomes : UploadStore(p, outcome)
         \/ UploadMark(p)
         \/ DeleteSessionFind(p)
         \/ DeleteSessionStorage(p)
         \/ DeleteSessionMark(p)


SpecFiles == InitFiles /\ [][NextFiles]_vars

\* ------------------------------------------------------------------------
\* Upload batches against one store, two requests in flight
\* ------------------------------------------------------------------------
\* an empty file: multer hands over an empty (truthy) buffer and size 0
PdfEmpty == MultipartFile(<<"e", ".", "p", "d", "f">>, ALLOWED_MIME_TYPE, 0, TRUE, <<>>)
PdfBig == MultipartFile(<<"f", ".", "p", "d", "f">>, ALLOWED_MIME_TYPE,
                        getMaxFileSizeBytes + 1, TRUE, TextNone)
PdfNoBuffer == MultipartFile(<<"b", ".", "p", "d", "f">>, ALLOWED_MIME_TYPE, 1024, FALSE, <<>>)
\* a text file sent under the name of a stored document
TxtNamedA == MultipartFile(<<"a", ".", "p", "d", "f">>, "text/plain", 1024, TRUE, TextNone)

\* the second session has auto-categorize switched off
UploadSessions ==
    { SessionDoc("AAAAAAA2", "a@x.com", "active", SessionTtl, NULL),
      [SessionDoc("BBBBBBB3", "a@x.com", "active", SessionTtl, NULL)
          EXCEPT !.autoCategorizeOnUpload = FALSE] }

UploadUser == [email |-> "a@x.com", sessionId |-> NoSid, type |-> "find_sessions"]

HintsUnknownA ==
    <<[fileName |-> <<"D", ".", "p", "d", "f">>, statementType |-> "savings"],
      [fileName |-> <<"a", ".", "p", "d", "f">>, statementType |-> "unknown"]>>

\* two entries that differ only in case
HintsTwiceD ==
    <<[fileName |-> <<"d", ".", "p", "d", "f">>, statementType |-> "checking"],
      [fileName |-> <<"D", ".", "p", "d", "f">>, statementType |-> "savings"]>>

UploadCall(sid, batch, hints) == [sessionId |-> sid, files |-> batch, hints |-> hints]

\* the calls of the first client
RacingUploads ==
    { UploadCall("AAAAAAA2", <<PdfAUpper, PdfBig, TxtFile>>, <<>>),
      UploadCall("AAAAAAA2", <<TxtNamedA, PdfA>>, HintsUnknownA),
      UploadCall("AAAAAAA2", <<PdfNoBuffer, PdfD>>, HintsTwiceD),
      UploadCall("AAAAAAA2", <<PdfEmpty, PdfD>>, <<>>),
      UploadCall("BBBBBBB3", <<PdfNoBuffer, PdfD>>, HintsUnknownA) }

\* the call of the second client
SecondBatches == { <<PdfA>> }

UploadStoredFiles == { <<>>, <<StoredFile(1, PdfA)>> }

InitUploads ==
    /\ now = 0
    /\ hits = [k \in RateKeys |-> <<>>]
    /\ rlLog = <<>>
    /\ sessions = UploadSessions
    /\ tokens = {}
    /\ outbox = {}
    /\ accessTokens = <<>>
    /\ files \in UploadStoredFiles
    /\ storage = { files[i].s3Key : i \in 1..Len(files) }
    /\ procs = [p \in Procs |-> Idle]
    /\ lastResp = NoResp

NextUploads ==
    \/ SendResponse
    \/ \E call \in RacingUploads :
         UploadStart("p1", call.sessionId, UploadUser, call.files, call.hints)
    \/ \E batch \in SecondBatches : UploadStart("p2", "AAAAAAA2", UploadUser, batch, <<>>)
    \/ \E p \in Procs :
         \/ UploadKeys(p)
         \/ UploadFile(p)
         \/ \E outcome \in StorageOutcomes : UploadStore(p, outcome)
         \/ UploadMark(p)

SpecUploads == InitUploads /\ [][NextUploads]_vars

\* ------------------------------------------------------------------------
\* Organizing stored files: move, retype, delete, preview
\* ------------------------------------------------------------------------
\* what earlier requests left: a filed document, an unfiled one, a deleted one
\* and a document of the other session
OrganizeStoredFiles ==
    { << StoredFile(1, PdfA),
         [StoredFile(2, PdfB) EXCEPT !.category = "unfiled"],
         [StoredFile(3, PdfD) EXCEPT !.status = "deleted", !.deletedAt = 0],
         [StoredFile(4, PdfD) EXCEPT
             !.sessionId = "BBBBBBB3",
             !.s3Key = buildS3Key("BBBBBBB3", StoredFile(4, PdfD).category, 4,
                                  StoredFile(4, PdfD).originalName)] >> }

OrganizeUsers ==
    { UploadUser, [email |-> "b@x.com", sessionId |-> NoSid, type |-> "find_sessions"] }

MoveSelections == { {}, {2}, {1, 2}, {1, 3, 4} }

MoveTargets == {"credit", "checking", "savings", "unknown", "unfiled"}

NewStatementTypes == {"credit", "checking", "savings", "unknown"}

DetectBatches == { <<>>, <<PdfD>>, <<PdfA, TxtFile, PdfNoBuffer>> }

InitOrganize ==
    /\ now = 0
    /\ hits = [k \in RateKeys |-> <<>>]
    /\ rlLog = <<>>
    /\ sessions = UploadSessions
    /\ tokens = {}
    /\ outbox = {}
    /\ accessTokens = <<>>
    /\ files \in OrganizeStoredFiles
    /\ storage = { files[i].s3Key : i \in { j \in 1..Len(files) : files[j].status = "uploaded" } }
    /\ procs = [p \in Procs |-> Idle]
    /\ lastResp = NoResp

NextOrganize ==
    \/ SendResponse
    \/ \E user \in OrganizeUsers :
         \/ \E fileIds \in MoveSelections, category \in MoveTargets :
              MoveFilesToCategory("AAAAAAA2", fileIds, category, user)
         \/ \E fileId \in FileIds \cup {Len(files) + 1}, statementType \in NewStatementTypes :
              UpdateFileStatementType(fileId, statementType, user)
         \/ \E fileId \in FileIds \cup {Len(files) + 1} : DeleteFile(fileId, user)
         \/ \E batch \in DetectBatches : DetectFilesForSession("AAAAAAA2", user, batch)

SpecOrganize == InitOrganize /\ [][NextOrganize]_vars

\* ------------------------------------------------------------------------
\* The keyword classifier on its own
\* ------------------------------------------------------------------------
\* what a document's text is put together from: the marker phrases, halves of
\* marker phrases and a word that belongs to none
Phrases ==
    { STATEMENT_KEYWORDS[t][i] : t \in {"credit"}, i \in 1..4 }
       \cup { STATEMENT_KEYWORDS[t][i] : t \in {"checking"}, i \in 1..3 }
       \cup { STATEMENT_KEYWORDS[t][i] : t \in {"savings"}, i \in 1..2 }
       \cup { <<"credit">>, <<"account">>, <<"lorem">> }

RECURSIVE JoinPhrases(_)
JoinPhrases(phrases) ==
    IF phrases = <<>> THEN <<>> ELSE Head(phrases) \o JoinPhrases(Tail(phrases))

PhraseLists == UNION { [1..n -> Phrases] : n \in 0..MaxPhrases }

\* detectStatementTypeFromText called on a text; the result is handed back
ClassifyText(text) ==
    /\ lastResp = NoResp
    /\ lastResp' = Resp("detectStatementTypeFromText", [text |-> text], 200,
                        detectStatementTypeFromText(text), "ok")
    /\ UNCHANGED <<now, hits, rlLog, sessions, tokens, outbox, accessTokens, files, storage, procs>>

NextClassify ==
    \/ SendResponse
    \/ (lastResp = NoResp /\ \E phrases \in PhraseLists : ClassifyText(JoinPhrases(phrases)))

SpecClassify == Init /\ [][NextClassify]_vars

\* ------------------------------------------------------------------------
\* Session id generation
\* ------------------------------------------------------------------------
SESSION_ID_LENGTH == 8

SESSION_ID_CHARSET_fullAlphabet ==
    <<"A", "B", "C", "D", "E", "F", "G", "H", "I", "J", "K", "L", "M", "N", "O", "P",
      "Q", "R", "S", "T", "U", "V", "W", "X", "Y", "Z", "2", "3", "4", "5", "6", "7">>

SESSION_ID_CHARSET ==
    <<"A", "B", "C", "D", "E", "F", "G", "H", "J", "K", "L", "M", "N", "P", "Q", "R",
      "S", "T", "U", "V", "W", "X", "Y", "Z", "2", "3", "4", "5", "6", "7", "8", "9">>

\* randomInt(max): an integer of 0..max-1
randomInt(max) == 0..(max - 1)

\* Array.from({ length }, () => CHARSET[randomInt(CHARSET.length)]), the draws given
generateSessionId(draws) ==
    [i \in 1..SESSION_ID_LENGTH |-> SESSION_ID_CHARSET[draws[i] + 1]]

\* the draws of one call: any outcome at the first positions, the smallest or
\* the largest outcome at the others
DrawLists ==
    { free \o rest :
        free \in [1..MaxFreeDraws -> randomInt(Len(SESSION_ID_CHARSET))],
        rest \in [1..(SESSION_ID_LENGTH - MaxFreeDraws) -> {0, Len(SESSION_ID_CHARSET) - 1}] }

GenerateSessionId(draws) ==
    /\ lastResp = NoResp
    /\ lastResp' = Resp("generateSessionId", [draws |-> draws], 200,
                        generateSessionId(draws), "ok")
    /\ UNCHANGED <<now, hits, rlLog, sessions, tokens, outbox, accessTokens, files, storage, procs>>

NextSessionId ==
    \/ SendResponse
    \/ (lastResp = NoResp /\ \E draws \in DrawLists : GenerateSessionId(draws))

SpecSessionId == Init /\ [][NextSessionId]_vars

\* ------------------------------------------------------------------------
\* Creating sessions, two requests in flight
\* ------------------------------------------------------------------------
\* the sessions collection before: empty, one id taken, both ids taken
CreateStoredSessions ==
    { {},
      { SessionDoc("AAAAAAA2", "a@x.com", "active", SessionTtl, NULL) },
      { SessionDoc("AAAAAAA2", "a@x.com", "active", SessionTtl, NULL),
        SessionDoc("BBBBBBB3", "b@x.com", "deleted", SessionTtl, 0) } }

CreateOutcomes == {"created", "error", "signError"}

InitCreate ==
    /\ now = 0
    /\ hits = [k \in RateKeys |-> <<>>]
    /\ rlLog = <<>>
    /\ sessions \in CreateStoredSessions
    /\ tokens = {}
    /\ outbox = {}
    /\ accessTokens = <<>>
    /\ files = <<>>
    /\ storage = {}
    /\ procs = [p \in Procs |-> Idle]
    /\ lastResp = NoResp

NextCreate ==
    \/ SendResponse
    \/ CreateSessionStart("p1", " A@X.com ")
    \/ CreateSessionStart("p2", "b@x.com")
    \/ \E p \in Procs :
         \/ CreateSessionExists(p)
         \/ \E outcome \in CreateOutcomes : CreateSessionCreate(p, outcome)

SpecCreate == InitCreate /\ [][NextCreate]_vars

\* ------------------------------------------------------------------------
\* Issuing email tokens
\* ------------------------------------------------------------------------
EmailTokenPayloads ==
    { [email |-> "a@x.com", sessionId |-> "AAAAAAA2", purpose |-> "continue_session"],
      [email |-> " A@X.com ", sessionId |-> NoSid, purpose |-> "find_sessions"] }

InitToken == InitWith({{}}, StoredTokens)

NextToken ==
    \/ SendResponse
    \/ Tick(MagicLinkTtl)
    \/ /\ lastResp = NoResp
       /\ \E payload \in EmailTokenPayloads, gen \in [1..3 -> RawTokens], failAt \in 0..3 :
            CreateEmailToken(payload, gen, failAt)

SpecToken == InitToken /\ [][NextToken]_vars

\* ------------------------------------------------------------------------
\* Access tokens at the guard (JwtStrategy)
\* ------------------------------------------------------------------------
INVALID_ACCESS_TOKEN_MESSAGE == "Invalid or expired access token."

NoEmail == ""

isValidType(value) == value = "continue_session" \/ value = "find_sessions"

validateAccessToken_sessionIdOptional(token) ==
    IF ~token.verifies
    THEN [ok |-> FALSE, payload |-> token.payload]
    ELSE IF token.payload.email = NoEmail \/ ~isValidType(token.payload.type)
    THEN [ok |-> FALSE, payload |-> token.payload]
    ELSE [ok |-> TRUE, payload |-> token.payload]

\* token.verifies: jwtService.verifyAsync accepts the signature and the expiry
validateAccessToken(token) ==
    IF ~token.verifies
    THEN [ok |-> FALSE, payload |-> token.payload]
    ELSE IF token.payload.email = NoEmail \/ ~isValidType(token.payload.type)
    THEN [ok |-> FALSE, payload |-> token.payload]
    ELSE IF token.payload.type = "continue_session" /\ token.payload.sessionId = NoSid
    THEN [ok |-> FALSE, payload |-> token.payload]
    ELSE [ok |-> TRUE, payload |-> token.payload]

ValidationResponse(token) ==
    IF validateAccessToken(token).ok
    THEN Resp("validateAccessToken", token, 200, validateAccessToken(token).payload, "user")
    ELSE Resp("validateAccessToken", token, 401, INVALID_ACCESS_TOKEN_MESSAGE, "unauthorized")

\* JwtAuthGuard.canActivate with a bearer token of the caller's making
ValidateAccessToken(token) ==
    /\ lastResp = NoResp
    /\ lastResp' = ValidationResponse(token)
    /\ UNCHANGED <<now, hits, rlLog, sessions, tokens, outbox, accessTokens, files, storage, procs>>

\* the creator of a session calls an authenticated endpoint with the bootstrap
\* token the createSession response carried, before it expires
PresentBootstrapToken ==
    /\ lastResp # NoResp
    /\ lastResp.op = "createSession"
    /\ lastResp.status = 201
    /\ lastResp' = ValidationResponse([verifies |-> TRUE, payload |-> lastResp.body.accessToken])
    /\ UNCHANGED <<now, hits, rlLog, sessions, tokens, outbox, accessTokens, files, storage, procs>>

AccessTokenTypes == {"continue_session", "find_sessions", "session_bootstrap", "bogus"}

BearerTokens ==
    [verifies : BOOLEAN,
     payload : [email : {"a@x.com", NoEmail}, sessionId : {"AAAAAAA2", NoSid},
                type : AccessTokenTypes]]

NextGuard ==
    \/ SendResponse
    \/ CreateSessionStart("p1", " A@X.com ")
    \/ CreateSessionExists("p1")
    \/ \E outcome \in CreateOutcomes : CreateSessionCreate("p1", outcome)
    \/ PresentBootstrapToken
    \/ (lastResp = NoResp /\ \E token \in BearerTokens : ValidateAccessToken(token))

SpecGuard == InitCreate /\ [][NextGuard]_vars

\* ------------------------------------------------------------------------
\* Reading sessions (SessionsService), split at the two queries of a read
\* ------------------------------------------------------------------------
\* the $match / $group aggregate: one row per session that has uploaded files
getUploadedFileCountsBySessionIds_anyStatus(sessionIds) ==
    LET rows(sid) == { i \in FileIds : files[i].sessionId = sid }
    IN [sid \in { x \in sessionIds : rows(x) # {} } |-> Cardinality(rows(sid))]

getUploadedFileCountsBySessionIds(sessionIds) ==
    LET rows(sid) == { i \in FileIds : /\ files[i].sessionId = sid
                                       /\ files[i].status = "uploaded" }
    IN [sid \in { x \in sessionIds : rows(x) # {} } |-> Cardinality(rows(sid))]

toSessionSummary(session, uploadedFileCount) ==
    [sessionId |-> session.sessionId, expiresAt |-> session.expiresAt,
     status |-> session.status, uploadedFileCount |-> uploadedFileCount]

\* the find()/findOne() of a read; call.op names the method
ActiveSessionsFound(call, t) ==
    IF call.op = "listActiveSessionsForEmail"
    THEN { s \in sessions : /\ getActiveSessionFilter(s, t)
                            /\ s.email = normalizeEmail(call.email) }
    ELSE findActiveSessionByIdAndEmail(call.sessionId, call.email, t)

ReadSessionStart(p, call) ==
    LET found == ActiveSessionsFound(call, now) IN
    /\ lastResp = NoResp
    /\ procs[p].pc = "idle"
    /\ IF call.op = "getActiveSessionById" /\ call.scope # NoSid /\ call.scope # call.sessionId
       THEN /\ lastResp' = Resp(call.op, call, 403, SESSION_ACCESS_FORBIDDEN_MESSAGE, "denied")
            /\ UNCHANGED procs
       ELSE IF found = {}
       THEN /\ lastResp' = IF call.op = "getActiveSessionById"
                           THEN Resp(call.op, call, 404, SESSION_NOT_FOUND_MESSAGE, "denied")
                           ELSE Resp(call.op, call, 200, {}, "none")
            /\ UNCHANGED procs
       ELSE /\ SetProc(p, [pc |-> "rs_count", call |-> call, found |-> found])
            /\ UNCHANGED lastResp
    /\ UNCHANGED <<now, hits, rlLog, sessions, tokens, outbox, accessTokens, files, storage>>

\* getUploadedFileCountsBySessionIds and the summaries: `counts.get(id) ?? 0`
ReadSessionCount(p) ==
    LET counts == getUploadedFileCountsBySessionIds({ s.sessionId : s \in procs[p].found })
    IN
    /\ lastResp = NoResp
    /\ procs[p].pc = "rs_count"
    /\ lastResp' = Resp(procs[p].call.op, procs[p].call, 200,
                        { toSessionSummary(s, IF s.sessionId \in DOMAIN counts
                                              THEN counts[s.sessionId] ELSE 0) :
                            s \in procs[p].found },
                        "ok")
    /\ SetProc(p, Idle)
    /\ UNCHANGED <<now, hits, rlLog, sessions, tokens, outbox, accessTokens, files, storage>>

ReadCalls ==
    { [op |-> "getActiveSessionById", sessionId |-> sid, email |-> "a@x.com", scope |-> scope] :
        sid \in SessionIds, scope \in {NoSid, "AAAAAAA2"} }
    \cup { [op |-> "findActiveSessionByIdAndEmail", sessionId |-> sid, email |-> e,
            scope |-> NoSid] : sid \in SessionIds, e \in {" A@X.com ", "b@x.com"} }
    \cup { [op |-> "listActiveSessionsForEmail", sessionId |-> NoSid, email |-> e,
            scope |-> NoSid] : e \in {" A@X.com ", "b@x.com"} }

\* two sessions of one owner, the second outliving the first; one session only
ReadStoredSessions ==
    { { SessionDoc("AAAAAAA2", "a@x.com", "active", SessionTtl, NULL),
        SessionDoc("BBBBBBB3", "a@x.com", "active", 2 * SessionTtl, NULL) },
      { SessionDoc("AAAAAAA2", "a@x.com", "active", SessionTtl, NULL) } }

ReadStoredFiles ==
    { << StoredFile(1, PdfA), [StoredFile(2, PdfB) EXCEPT !.status = "rejected"] >> }

InitSessions ==
    /\ now = 0
    /\ hits = [k \in RateKeys |-> <<>>]
    /\ rlLog = <<>>
    /\ sessions \in ReadStoredSessions
    /\ tokens = {}
    /\ outbox = {}
    /\ accessTokens = <<>>
    /\ files \in ReadStoredFiles
    /\ storage = { files[i].s3Key : i \in { j \in 1..Len(files) : files[j].status = "uploaded" } }
    /\ procs = [p \in Procs |-> Idle]
    /\ lastResp = NoResp

NextSessions ==
    \/ SendResponse
    \/ (lastResp = NoResp /\ Tick(SessionTtl))
    \/ \E call \in ReadCalls : ReadSessionStart("p1", call)
    \/ ReadSessionCount("p1")
    \/ DeleteSessionStart("p2", "AAAAAAA2", UploadUser)
    \/ DeleteSessionFind("p2")
    \/ DeleteSessionStorage("p2")
    \/ DeleteSessionMark("p2")
    \/ CreateSessionStart("p2", " A@X.com ")
    \/ CreateSessionExists("p2")
    \/ CreateSessionCreate("p2", "created")
    \/ UploadStart("p2", "AAAAAAA2", UploadUser, <<PdfD>>, <<>>)
    \/ UploadKeys("p2")
    \/ UploadFile("p2")
    \/ \E outcome \in {"stored", "timeout"} : UploadStore("p2", outcome)
    \/ UploadMark("p2")
    \/ DeleteFile(1, UploadUser)

SpecSessions == InitSessions /\ [][NextSessions]_vars

\* ------------------------------------------------------------------------
\* EmailService: sending the magic link through the provider
\* ------------------------------------------------------------------------
DEFAULT_RESEND_RETRY_COUNT == 2

RETRYABLE_RESEND_STATUS_CODES == {408, 425, 429, 500, 502, 503, 504}

\* getResendRetryCount; parsed is <<n>> for an integer setting, <<>> for NaN
getResendRetryCount(parsed) ==
    IF parsed # <<>> /\ parsed[1] >= 0 /\ parsed[1] <= 5
    THEN parsed[1] ELSE DEFAULT_RESEND_RETRY_COUNT

\* an Error as isRetryableResendError sees it: lower-cased name and message,
\* and the code and message of its cause (words of the string, in order)
ErrorOf(name, message, hasCause, causeCode, causeMessage) ==
    [name |-> name, message |-> message, hasCause |-> hasCause,
     causeCode |-> causeCode, causeMessage |-> causeMessage]

isRetryableResendError(error) ==
    IF \/ includes(error.name, <<"timeout">>)
       \/ includes(error.message, <<"aborted", "due", "to", "timeout">>)
       \/ includes(error.message, <<"fetch", "failed">>)
    THEN TRUE
    ELSE IF ~error.hasCause THEN FALSE
    ELSE \/ \E code \in {"timeout", "econnreset", "econnrefused", "enotfound",
                         "eai_again", "und_err"} : includes(error.causeCode, <<code>>)
         \/ \E word \in {"timeout", "socket", "network"} : includes(error.causeMessage, <<word>>)

\* new InternalServerErrorException(`Failed to send magic link email: ${responseBody}`)
SendFailedException(responseBody) ==
    ErrorOf(<<"internalservererrorexception">>,
            <<"failed", "to", "send", "magic", "link", "email:">> \o responseBody,
            FALSE, <<>>, <<>>)

NoError == ErrorOf(<<>>, <<>>, FALSE, <<>>, <<>>)

\* what one fetch to the provider comes to: a response or a thrown error
FetchResponse(status, body) ==
    [kind |-> "response", status |-> status, body |-> body, error |-> NoError]

FetchThrows(error) ==
    [kind |-> "error", status |-> 0, body |-> <<>>, error |-> error]

\* sendMagicLink up to the first fetch
SendMagicLinkStart(p, config) ==
    LET req == [config |-> config] IN
    /\ lastResp = NoResp
    /\ procs[p].pc = "idle"
    /\ IF config.EMAIL_PROVIDER # "resend"
       THEN /\ lastResp' = Resp("sendMagicLink", req, 200, "console", [attempts |-> 0])
            /\ UNCHANGED procs
       ELSE IF ~config.RESEND_API_KEY
       THEN /\ lastResp' = Resp("sendMagicLink", req, 500,
                                "RESEND_API_KEY is required when EMAIL_PROVIDER=resend.",
                                [attempts |-> 0])
            /\ UNCHANGED procs
       ELSE /\ SetProc(p, [pc |-> "sw_fetch", config |-> config, attempt |-> 1,
                           maxAttempts |-> getResendRetryCount(config.RESEND_RETRY_COUNT) + 1,
                           outcomes |-> <<>>])
            /\ UNCHANGED lastResp
    /\ UNCHANGED <<now, hits, rlLog, sessions, tokens, outbox, accessTokens, files, storage>>

\* one turn of the loop of sendWithResend: the fetch, then return, delay and
\* continue, or throw; a throw inside the try block lands in its catch block
ResendFetch(p, outcome) ==
    LET attempt == procs[p].attempt
        maxAttempts == procs[p].maxAttempts
        req == [config |-> procs[p].config]
        seen == Append(procs[p].outcomes, outcome)
        ok == outcome.kind = "response" /\ outcome.status \in 200..299
        retryStatus == /\ outcome.kind = "response"
                       /\ ~ok
                       /\ outcome.status \in RETRYABLE_RESEND_STATUS_CODES
                       /\ attempt < maxAttempts
        caught == IF outcome.kind = "error" THEN outcome.error
                  ELSE SendFailedException(outcome.body)
        retryCaught == isRetryableResendError(caught) /\ attempt < maxAttempts
    IN
    /\ lastResp = NoResp
    /\ procs[p].pc = "sw_fetch"
    /\ attempt <= maxAttempts
    /\ IF ok
       THEN /\ lastResp' = Resp("sendMagicLink", req, 200, "sent",
                                [attempts |-> attempt, outcomes |-> seen])
            /\ SetProc(p, Idle)
       ELSE IF retryStatus \/ retryCaught
       THEN /\ SetProc(p, [procs[p] EXCEPT !.attempt = @ + 1, !.outcomes = seen])
            /\ UNCHANGED lastResp
       ELSE /\ lastResp' = Resp("sendMagicLink", req, 500, "error",
                                [attempts |-> attempt, outcomes |-> seen])
            /\ SetProc(p, Idle)
    /\ UNCHANGED <<now, hits, rlLog, sessions, tokens, outbox, accessTokens, files, storage>>

TimeoutError ==
    ErrorOf(<<"timeout", "error">>, <<"the", "operation", "was", "aborted", "due", "to", "timeout">>,
            FALSE, <<>>, <<>>)

NetworkError ==
    ErrorOf(<<"type", "error">>, <<"request", "error">>, TRUE, <<"econnreset">>, <<"read">>)

OtherError == ErrorOf(<<"type", "error">>, <<"invalid", "url">>, FALSE, <<>>, <<>>)

FetchOutcomes ==
    { FetchResponse(200, <<"id">>), FetchResponse(429, <<"rate", "limited">>),
      FetchResponse(503, <<>>), FetchResponse(422, <<"invalid", "to">>),
      FetchResponse(400, <<"upstream", "fetch", "failed">>),
      FetchThrows(TimeoutError), FetchThrows(NetworkError), FetchThrows(OtherError) }

EmailConfigs ==
    { [EMAIL_PROVIDER |-> provider, RESEND_API_KEY |-> key, RESEND_RETRY_COUNT |-> parsed] :
        provider \in {"resend"}, key \in {TRUE}, parsed \in {<<>>, <<0>>, <<5>>, <<6>>, <<-1>>} }
    \cup { [EMAIL_PROVIDER |-> "console", RESEND_API_KEY |-> FALSE, RESEND_RETRY_COUNT |-> <<>>],
           [EMAIL_PROVIDER |-> "resend", RESEND_API_KEY |-> FALSE, RESEND_RETRY_COUNT |-> <<>>] }

NextEmail ==
    \/ SendResponse
    \/ \E config \in EmailConfigs : SendMagicLinkStart("p1", config)
    \/ \E outcome \in FetchOutcomes : ResendFetch("p1", outcome)

SpecEmail == Init /\ [][NextEmail]_vars

\* ------------------------------------------------------------------------
\* Same-named files within a batch and across uploads, with file deletion
\* ------------------------------------------------------------------------
PdfDUpper == MultipartFile(<<" ", "D", ".", "P", "D", "F">>, ALLOWED_MIME_TYPE, 1024, TRUE, TextCredit)
TxtNamedD == MultipartFile(<<"d", ".", "p", "d", "f">>, "text/plain", 1024, TRUE, TextNone)
PdfBigNamedD == MultipartFile(<<"D", ".", "p", "d", "f">>, ALLOWED_MIME_TYPE,
                              getMaxFileSizeBytes + 1, TRUE, TextNone)
PdfNoBufferNamedD == MultipartFile(<<"d", ".", "P", "D", "F">>, ALLOWED_MIME_TYPE, 1024, FALSE, <<>>)

SameNameBatches ==
    { <<PdfD, PdfDUpper>>, <<TxtNamedD, PdfD>>, <<PdfBigNamedD, PdfDUpper>>,
      <<PdfNoBufferNamedD, PdfD>> }

LaterBatches == { <<PdfDUpper>> }

BatchStorageOutcomes == {"stored", "timeout"}

NextBatch ==
    \/ SendResponse
    \/ \E batch \in SameNameBatches : UploadStart("p1", "AAAAAAA2", UploadUser, batch, <<>>)
    \/ \E batch \in LaterBatches : UploadStart("p2", "AAAAAAA2", UploadUser, batch, <<>>)
    \/ \E fileId \in {1, 2} : DeleteFile(fileId, UploadUser)
    \/ \E p \in Procs :
         \/ UploadKeys(p)
         \/ UploadFile(p)
         \/ \E outcome \in BatchStorageOutcomes : UploadStore(p, outcome)
         \/ UploadMark(p)

SpecBatch == InitWith({UploadSessions}, {{}}) /\ [][NextBatch]_vars

\* ------------------------------------------------------------------------
\* Organizing stored files, with downloads
\* ------------------------------------------------------------------------
NextKeys ==
    \/ NextOrganize
    \/ \E user \in OrganizeUsers, fileId \in FileIds : GetRawFile(fileId, user)

SpecKeys == InitOrganize /\ [][NextKeys]_vars

\* ========================================================================
\* Claims
\* ========================================================================

\* C1: over any sequence of verifyToken calls with one raw token, a call on an
\* unused, unexpired token obtains the document and sets usedAt to the time of
\* the call; a call on a token that is already used obtains nothing, leaves the
\* token collection unchanged and is answered with the "Invalid or expired
\* token." bad request; usedAt, once set, never changes.
C1_ConsumedExactlyOnce ==
    [][ /\ \A p \in Procs :
             (procs[p].pc = "idle" /\ procs'[p].pc = "vt_finish") =>
                LET D == TokensWithHash(sha256Hex(procs'[p].rawToken)) IN
                /\ (\E d \in D : d.usedAt = NULL /\ d.expiresAt > now) =>
                      /\ procs'[p].tokenDoc # NoDoc
                      /\ \A d \in D : [d EXCEPT !.usedAt = now] \in tokens'
                /\ (\E d \in D : d.usedAt # NULL) =>
                      /\ procs'[p].tokenDoc = NoDoc
                      /\ tokens' = tokens
        /\ \A p \in Procs :
             (procs[p].pc = "vt_finish" /\ procs'[p].pc = "idle" /\ procs[p].tokenDoc = NoDoc) =>
                /\ lastResp'.status = 400
                /\ lastResp'.body = INVALID_TOKEN_MESSAGE
                /\ accessTokens' = accessTokens
        /\ \A d \in tokens : d.usedAt # NULL =>
             \A e \in tokens' : (e.tokenHash = d.tokenHash /\ e.createdAt = d.createdAt) =>
                                   e.usedAt = d.usedAt ]_vars

MintedFrom(tokenHash) ==
    { i \in DOMAIN accessTokens : accessTokens[i].tokenHash = tokenHash }

C1_Witness ==
    /\ lastResp.op = "verifyToken"
    /\ lastResp.status = 400
    /\ lastResp.log.isUsed
    /\ MintedFrom(sha256Hex(lastResp.req.rawToken)) # {}

\* C2: however verifyToken calls with the same raw token interleave, the calls
\* that obtained the token document (still minting, or already answered with an
\* access token) number exactly one once the token is used and none before.
Holders(tokenHash) ==
    { p \in Procs : /\ procs[p].pc = "vt_finish"
                    /\ procs[p].tokenDoc # NoDoc
                    /\ procs[p].tokenDoc.tokenHash = tokenHash }

C2_OneWinner ==
    /\ \A r \in RawTokens : Cardinality(Holders(sha256Hex(r))) + Cardinality(MintedFrom(sha256Hex(r))) <= 1
    /\ \A d \in tokens :
         Cardinality(Holders(d.tokenHash)) + Cardinality(MintedFrom(d.tokenHash))
            = IF d.usedAt # NULL THEN 1 ELSE 0

C2_Witness ==
    /\ procs["p1"].pc = "vt_finish"
    /\ procs["p2"].pc = "vt_finish"
    /\ procs["p1"].rawToken = procs["p2"].rawToken
    /\ procs["p1"].at = procs["p2"].at
    /\ Cardinality(Holders(sha256Hex(procs["p1"].rawToken))) = 1

\* C3: a verifyToken call that did not obtain the token is answered with status
\* 400 and the body "Invalid or expired token.", whether the token was already
\* used, had expired, or never existed.
C3_SameFailure ==
    (/\ lastResp.op = "verifyToken"
     /\ (~lastResp.log.foundToken \/ lastResp.log.isUsed \/ lastResp.log.isExpired)) =>
       /\ lastResp.status = 400
       /\ lastResp.body = INVALID_TOKEN_MESSAGE

C3_Witness ==
    /\ lastResp.op = "verifyToken"
    /\ lastResp.log.foundToken
    /\ lastResp.log.isExpired
    /\ ~lastResp.log.isUsed
    /\ lastResp.status = 400

\* C4: requestLink always answers with the fixed REQUEST_LINK_MESSAGE and
\* requestSessions with the fixed REQUEST_SESSIONS_MESSAGE, as a success, in
\* each case: rate limited, no session found, link sent, token creation failed,
\* email delivery failed.
C4_GenericMessage ==
    /\ lastResp.op = "requestLink" =>
          lastResp.status = 201 /\ lastResp.body = REQUEST_LINK_MESSAGE
    /\ lastResp.op = "requestSessions" =>
          lastResp.status = 201 /\ lastResp.body = REQUEST_SESSIONS_MESSAGE

C4_Witness ==
    /\ lastResp.op = "requestLink"
    /\ lastResp.log = "email-error"
    /\ lastResp.body = REQUEST_LINK_MESSAGE

\* C5: among calls of isRateLimited with one key that all fall within one
\* window, calls 1 to 5 return false and call 6 returns true.
EarlierSameKey(i) == { j \in 1..(i - 1) : rlLog[j].key = rlLog[i].key }

WithinOneWindow(i) == \A j \in EarlierSameKey(i) : rlLog[i].t - rlLog[j].t < Window

C5_SixthCallLimited ==
    \A i \in DOMAIN rlLog :
        (WithinOneWindow(i) /\ Cardinality(EarlierSameKey(i)) <= 5) =>
            (rlLog[i].limited <=> Cardinality(EarlierSameKey(i)) = 5)

C5_Witness ==
    \E i \in DOMAIN rlLog :
        /\ WithinOneWindow(i)
        /\ Cardinality(EarlierSameKey(i)) = 5
        /\ rlLog[i].limited
        /\ rlLog[i].t > rlLog[1].t

\* C6: a requestLink or requestSessions call that is rate limited for its key
\* (five or more hits of that key in the window before it) creates no email
\* token record and sends no email.
HitsInWindow(key) ==
    Cardinality({ i \in DOMAIN hits[key] : now - hits[key][i] < Window })

RequestKey(resp) ==
    RateKey(IF resp.op = "requestLink" THEN "request-link" ELSE "request-sessions",
            resp.req.ip, normalizeEmail(resp.req.email))

C6_LimitedIssuesNothing ==
    [][ (hits' # hits /\ HitsInWindow(RequestKey(lastResp')) >= MAX_REQUESTS) =>
            (tokens' = tokens /\ outbox' = outbox) ]_vars

C6_Witness ==
    /\ lastResp.op = "requestLink"
    /\ lastResp.log = "rate-limited"
    /\ findActiveSessionByIdAndEmail(lastResp.req.sessionId, lastResp.req.email, now) # {}
    /\ tokens = {}

\* C7: requestLink creates a token or sends an email only if a session with the
\* given sessionId and email is active, unexpired and not deleted; and
\* requestSessions only if the email has at least one such session.
LiveSession(s) == s.status = "active" /\ s.expiresAt > now /\ s.deletedAt = NULL

C7_OnlyForLiveSession ==
    [][ (hits' # hits /\ (tokens' # tokens \/ outbox' # outbox)) =>
            IF lastResp'.op = "requestLink"
            THEN \E s \in sessions : /\ LiveSession(s)
                                     /\ s.sessionId = lastResp'.req.sessionId
                                     /\ s.email = lastResp'.req.email
            ELSE \E s \in sessions : /\ LiveSession(s)
                                     /\ s.email = normalizeEmail(lastResp'.req.email) ]_vars

C7_Witness ==
    /\ lastResp.op = "requestLink"
    /\ lastResp.log = "no-session"
    /\ \E s \in sessions : /\ s.sessionId = lastResp.req.sessionId
                           /\ s.email = lastResp.req.email
                           /\ s.status = "active"
                           /\ s.expiresAt <= now
    /\ tokens = {}
    /\ outbox = {}

\* ------------------------------------------------------------------------
\* Session deletion and access control (SpecFiles)
\* ------------------------------------------------------------------------
ScopeMismatch(user, sid) == user.sessionId # NoSid /\ user.sessionId # sid

OwnerMismatch(user, sid) ==
    \E s \in sessions : s.sessionId = sid /\ s.email # normalizeEmail(user.email)

Unauthorized(user, sid) == ScopeMismatch(user, sid) \/ OwnerMismatch(user, sid)

\* the session a request is aimed at: named in the request, or the one that
\* holds the file named in the request
TargetSession(req) ==
    IF "sessionId" \in DOMAIN req THEN req.sessionId
    ELSE IF req.fileId \in FileIds THEN files[req.fileId].sessionId
    ELSE NoSid

\* C8: once deleteActiveSessionById has answered with success, the session is
\* deleted, every file that was uploaded when it looked is deleted, and a
\* storage delete was attempted for each of them, whichever of those storage
\* deletes failed.
C8_DeleteCascades ==
    (lastResp.op = "deleteSession" /\ lastResp.status = 200) =>
        /\ lastResp.body.deleted
        /\ \A s \in sessions :
             (s.sessionId = lastResp.req.sessionId /\ s.email = lastResp.req.user.email)
                => s.status = "deleted"
        /\ lastResp.log.attempted = lastResp.log.uploadedFiles
        /\ lastResp.log.rejected \subseteq lastResp.log.attempted
        /\ \A i \in lastResp.log.uploadedFiles : files[i].status = "deleted"

C8_Witness ==
    /\ lastResp.op = "deleteSession"
    /\ lastResp.status = 200
    /\ Cardinality(lastResp.log.uploadedFiles) >= 2
    /\ Cardinality(lastResp.log.rejected) = 1
    /\ \A i \in lastResp.log.uploadedFiles : files[i].status = "deleted"

\* C9: a request aimed at a session whose owner email is not the requester's,
\* or by a token scoped to another session, never gets past the access check
\* (no step of the operation is taken on its behalf), ends in an error, and
\* leaves every session, file record and storage object as it was.
C9_UnauthorizedChangesNothing ==
    [][ /\ \A p \in Procs :
             (procs'[p] # procs[p] /\ procs'[p].pc # "idle")
                => ~Unauthorized(procs'[p].user, procs'[p].sessionId)
        /\ ( /\ lastResp' # NoResp
             /\ lastResp' # lastResp
             /\ TargetSession(lastResp'.req) # NoSid
             /\ Unauthorized(lastResp'.req.user, TargetSession(lastResp'.req)) )
           => ( /\ lastResp'.status >= 400
                /\ UNCHANGED <<sessions, files, storage>> )
      ]_vars

C9_Witness ==
    /\ lastResp.op = "deleteFile"
    /\ lastResp.status = 404
    /\ lastResp.req.fileId \in FileIds
    /\ files[lastResp.req.fileId].status = "uploaded"
    /\ OwnerMismatch(lastResp.req.user, TargetSession(lastResp.req))
    /\ files[lastResp.req.fileId].s3Key \in storage

\* A response produced by the session access check itself: the request was
\* well-formed enough to reach it (a file-targeted request names a file that
\* is not deleted).
ReachedAccessCheck(resp) ==
    /\ resp.op \in {"getSession", "deleteSession", "uploadFiles", "detectFiles", "listFiles",
                    "moveFiles", "updateFile", "deleteFile", "getRawFile"}
    /\ resp.status # 400
    /\ "fileId" \in DOMAIN resp.req =>
          (resp.req.fileId \in FileIds /\ (resp.status >= 400 => files[resp.req.fileId].status # "deleted"))

FailedScopeCheck(resp) ==
    ReachedAccessCheck(resp) /\ ScopeMismatch(resp.req.user, TargetSession(resp.req))

FailedOwnerCheck(resp) ==
    /\ ReachedAccessCheck(resp)
    /\ ~ScopeMismatch(resp.req.user, TargetSession(resp.req))
    /\ OwnerMismatch(resp.req.user, TargetSession(resp.req))

\* C10 as stated: whichever of the two checks fails, the answer is the same
\* 403 with the generic forbidden message.
C10_SameForbiddenError ==
    (FailedScopeCheck(lastResp) \/ FailedOwnerCheck(lastResp)) =>
        (lastResp.status = 403 /\ lastResp.body = SESSION_ACCESS_FORBIDDEN_MESSAGE)

\* C10 (amended): a token scoped to another session is answered 403 with the
\* forbidden message; a requester who only fails the owner-email check is
\* answered 404 "Session not found.", so the two answers differ.
C10_ScopeForbiddenOwnerNotFound ==
    /\ FailedScopeCheck(lastResp) =>
          (lastResp.status = 403 /\ lastResp.body = SESSION_ACCESS_FORBIDDEN_MESSAGE)
    /\ FailedOwnerCheck(lastResp) =>
          (lastResp.status = 404 /\ lastResp.body = SESSION_NOT_FOUND_MESSAGE)

C10_Witness ==
    /\ lastResp.op = "listFiles"
    /\ FailedOwnerCheck(lastResp)
    /\ lastResp.status = 404
    /\ \E s \in sessions : s.sessionId = lastResp.req.sessionId /\ s.status = "active"

\* ------------------------------------------------------------------------
\* Upload claims
\* ------------------------------------------------------------------------
\* the upload request p is at the head of a loop turn for one file of its batch
AtFile(p) ==
    /\ procs[p].pc = "up_file"
    /\ procs[p].i <= Len(procs[p].acceptedBatch)

CurrentFile(p) == procs[p].acceptedBatch[procs[p].i]

\* request p takes its loop turn in this step
TurnTaken(p) == AtFile(p) /\ procs'[p] # procs[p]

\* a non-deleted file of the session carries this name, compared trimmed and
\* without regard to case
NameTaken(sid, name) ==
    \E i \in FileIds : /\ files[i].sessionId = sid
                       /\ files[i].status # "deleted"
                       /\ LowerSeq(trim(files[i].originalName)) = LowerSeq(trim(name))

RejectedWith(p, reason) ==
    /\ procs'[p].pc = "up_file"
    /\ procs'[p].i = procs[p].i + 1
    /\ procs'[p].uploaded = procs[p].uploaded
    /\ procs'[p].rejected =
          Append(procs[p].rejected, Rejection(trim(CurrentFile(p).originalname), reason))

\* C11: a file whose trimmed name equals, without regard to case, the name of
\* an existing non-deleted file of the same session is rejected with the
\* duplicate-name reason, and no record is created and nothing is stored.
C11_DuplicateNameRejected ==
    [][\A p \in Procs :
         (TurnTaken(p) /\ NameTaken(procs[p].sessionId, CurrentFile(p).originalname))
            => /\ RejectedWith(p, DUPLICATE_FILE_NAME_REASON)
               /\ UNCHANGED <<files, storage>>]_vars

\* C12: in every reachable state, also after upload batches that ran
\* concurrently against one session, no two non-deleted file records of a
\* session have original names that are equal without regard to case.
C12_UniqueNamesPerSession ==
    \A i, j \in FileIds :
       ( /\ i # j
         /\ files[i].sessionId = files[j].sessionId
         /\ files[i].status # "deleted"
         /\ files[j].status # "deleted" )
       => LowerSeq(files[i].originalName) # LowerSeq(files[j].originalName)

NON_PDF_REASON == "Only application/pdf files are accepted."

NonPdfTurn(p) == TurnTaken(p) /\ CurrentFile(p).mimetype # "application/pdf"

\* the request already holds the file's name as taken, so the duplicate-name
\* check, which runs first, answers for the file
HeldAsTaken(p) ==
    LowerSeq(trim(CurrentFile(p).originalname)) \in procs[p].fileNameKeysInSession

AuthorizedUploadAnswered ==
    /\ lastResp # NoResp
    /\ lastResp.op = "uploadFiles"
    /\ lastResp.log \notin {"empty", "denied"}

\* how many entries of the two answer lists, and how many input files, carry a name
UploadedCount(body, name) ==
    Cardinality({ k \in 1..Len(body.uploaded) : files[body.uploaded[k]].originalName = name })

RejectedCount(body, name) ==
    Cardinality({ k \in 1..Len(body.rejected) : trim(body.rejected[k].originalName) = name })

InputCount(inputFiles, name) ==
    Cardinality({ k \in 1..Len(inputFiles) : trim(inputFiles[k].originalname) = name })

COUNT_EXCEEDED_REASON == <<"Exceeded max file count", getMaxFilesPerUpload>>

\* C14: once authorized with a non-empty batch the upload returns normally:
\* every input file is in exactly one of the uploaded and rejected lists, the
\* files beyond the max count are rejected with the count-exceeded reason, and
\* no rejection or storage failure of one file keeps the later ones out.
C14_EveryFileAccounted ==
    AuthorizedUploadAnswered =>
       /\ lastResp.status = 201
       /\ \A k \in 1..Len(lastResp.req.files) :
            LET raw == lastResp.req.files[k].originalname
                name == trim(raw)
            IN
            /\ UploadedCount(lastResp.body, name) + RejectedCount(lastResp.body, name)
                  = InputCount(lastResp.req.files, name)
            /\ k > getMaxFilesPerUpload =>
                  \E j \in 1..Len(lastResp.body.rejected) :
                     lastResp.body.rejected[j] = Rejection(raw, COUNT_EXCEEDED_REASON)

\* request p stores a new record for its current file in this step
Accepted(p) == TurnTaken(p) /\ Len(files') = Len(files) + 1

\* the hint the client supplied for a file name: the last entry of the
\* metadata whose name equals it trimmed and without regard to case
HintsFor(hints, name) ==
    { k \in 1..Len(hints) : LowerSeq(trim(hints[k].fileName)) = LowerSeq(trim(name)) }

HintedType(hints, name) ==
    IF HintsFor(hints, name) = {} THEN "unknown"
    ELSE hints[CHOOSE k \in HintsFor(hints, name) :
                  \A j \in HintsFor(hints, name) : j <= k].statementType

\* C15: for every file upload accepts, the stored statementType is the
\* client's hint for that file name when one is given and is not unknown, and
\* otherwise the detector's autoDetectedType; autoDetectedType is the
\* detector's output whatever the hint; later upload steps keep both.
C15_StatementTypeResolution ==
    [][/\ \A p \in Procs :
            Accepted(p) =>
               LET record == files'[Len(files')]
                   hinted == HintedType(procs[p].statementTypeByName, CurrentFile(p).originalname)
                   detected == detectStatementTypeFromPdf(CurrentFile(p)).autoDetectedType
               IN /\ record.autoDetectedType = detected
                  /\ record.statementType = IF hinted # "unknown" THEN hinted ELSE detected
       /\ \A i \in FileIds :
            /\ files'[i].statementType = files[i].statementType
            /\ files'[i].autoDetectedType = files[i].autoDetectedType]_vars

\* an upload answered with a file stored under the hinted type savings although
\* the detector found nothing in it
C15_Witness ==
    /\ lastResp # NoResp
    /\ lastResp.op = "uploadFiles"
    /\ lastResp.status = 201
    /\ HintsFor(lastResp.req.statementTypeByName, <<"d", ".", "p", "d", "f">>) # {}
    /\ \E k \in 1..Len(lastResp.body.uploaded) :
          /\ files[lastResp.body.uploaded[k]].statementType = "savings"
          /\ files[lastResp.body.uploaded[k]].autoDetectedType = "unknown"
          /\ files[lastResp.body.uploaded[k]].status = "uploaded"

\* the stored session a request uploads into
SessionOf(sid) == CHOOSE s \in sessions : s.sessionId = sid

\* C16: for every file upload accepts, the initial category is unfiled when
\* the session has auto-categorize disabled, whatever type was detected or
\* hinted, and otherwise it is the category named like the resolved
\* statementType; the remaining upload steps keep it.
C16_InitialCategory ==
    [][/\ \A p \in Procs :
            Accepted(p) =>
               LET record == files'[Len(files')] IN
               /\ record.sessionId = procs[p].sessionId
               /\ record.statementType \in {"credit", "checking", "savings", "unknown"}
               /\ record.category =
                     IF SessionOf(procs[p].sessionId).autoCategorizeOnUpload = FALSE
                     THEN "unfiled" ELSE record.statementType
       /\ \A i \in FileIds : files'[i].category = files[i].category]_vars

\* of two uploaded files hinted as savings, the one in the session with
\* auto-categorize disabled is unfiled and the other is in the savings folder
C16_Witness ==
    \E i, j \in FileIds :
       /\ files[i].sessionId = "BBBBBBB3"
       /\ SessionOf("BBBBBBB3").autoCategorizeOnUpload = FALSE
       /\ files[i].status = "uploaded"
       /\ files[i].statementType = "savings"
       /\ files[i].category = "unfiled"
       /\ files[j].sessionId = "AAAAAAA2"
       /\ files[j].status = "uploaded"
       /\ files[j].statementType = "savings"
       /\ files[j].category = "savings"

\* ------------------------------------------------------------------------
\* Claims on organizing files
\* ------------------------------------------------------------------------
\* a request of this kind is answered in this step, with this status
Answered(op, status) ==
    /\ lastResp = NoResp
    /\ lastResp' # NoResp
    /\ lastResp'.op = op
    /\ lastResp'.status = status

\* the records a move request addresses: listed, of the session, not deleted
MoveMatches(req, i) ==
    /\ i \in req.fileIds
    /\ files[i].sessionId = req.sessionId
    /\ files[i].status # "deleted"

\* C17: a move to unfiled sets category unfiled and confirmedByUser on the
\* matching non-deleted files of the session and keeps their statementType; a
\* move to credit, checking, savings or unknown sets category and statementType
\* to the target; deleted files, files of another session and files not listed
\* stay as they are.
C17_MoveEffect ==
    [][Answered("moveFiles", 200) =>
         LET req == lastResp'.req IN
         /\ Len(files') = Len(files)
         /\ \A i \in FileIds :
              files'[i] =
                 IF MoveMatches(req, i)
                 THEN [files[i] EXCEPT
                         !.category = req.category,
                         !.confirmedByUser = TRUE,
                         !.statementType = IF req.category = "unfiled" THEN @ ELSE req.category]
                 ELSE files[i]]_vars

\* a move to unfiled of a filed credit document, a deleted one and one of the
\* other session was answered: the first is unfiled and still credit, the other
\* two kept their folders
C17_Witness ==
    /\ lastResp # NoResp
    /\ lastResp.op = "moveFiles"
    /\ lastResp.status = 200
    /\ lastResp.req.category = "unfiled"
    /\ lastResp.req.fileIds = {1, 3, 4}
    /\ files[1].category = "unfiled" /\ files[1].statementType = "credit"
    /\ files[1].confirmedByUser
    /\ files[3].status = "deleted" /\ files[3].category # "unfiled"
    /\ files[4].sessionId # lastResp.req.sessionId /\ files[4].category # "unfiled"

\* C18: updateFileStatementType sets statementType to the new type and
\* confirmedByUser to true; an unfiled file stays unfiled and any other file's
\* category is realigned to the new type; every other record is untouched.
\* So no step other than a move takes a file out of unfiled.
C18_UpdateEffect ==
    [][/\ Answered("updateFile", 200) =>
            LET req == lastResp'.req IN
            /\ Len(files') = Len(files)
            /\ \A i \in FileIds :
                 files'[i] =
                    IF i = req.fileId
                    THEN [files[i] EXCEPT
                            !.statementType = req.statementType,
                            !.confirmedByUser = TRUE,
                            !.category = IF @ = "unfiled" THEN "unfiled" ELSE req.statementType]
                    ELSE files[i]
       /\ \A i \in FileIds :
            (files[i].category = "unfiled" /\ files'[i].category # "unfiled")
               => Answered("moveFiles", 200)]_vars

\* the unfiled document was retyped to checking and is still unfiled, after the
\* filed one was retyped to savings and moved to the savings folder
C18_Witness ==
    /\ lastResp # NoResp
    /\ lastResp.op = "updateFile"
    /\ lastResp.status = 200
    /\ lastResp.req.fileId = 2
    /\ files[2].statementType = "checking"
    /\ files[2].category = "unfiled"
    /\ files[2].confirmedByUser
    /\ files[1].statementType = "savings"
    /\ files[1].category = "savings"

\* C19: deleteFile is not best-effort. When the storage delete fails the error
\* reaches the caller and the record keeps its status and has no deletedAt;
\* a record becomes deleted only on a step that answers deleteFile with
\* success, and by then its storage object is gone.
C19_DeleteFileNotBestEffort ==
    [][/\ (Answered("deleteFile", 500) /\ lastResp'.log = "storage-error") =>
            /\ UNCHANGED <<files, storage>>
            /\ files'[lastResp'.req.fileId].status # "deleted"
            /\ files'[lastResp'.req.fileId].deletedAt = NULL
       /\ \A i \in FileIds :
            (files[i].status # "deleted" /\ files'[i].status = "deleted") =>
               /\ Answered("deleteFile", 200)
               /\ lastResp'.req.fileId = i
               /\ files'[i].deletedAt = now
               /\ files[i].s3Key \notin storage']_vars

\* a delete failed at the storage: the caller got the error, the document is
\* still uploaded, undated and in storage
C19_Witness ==
    /\ lastResp # NoResp
    /\ lastResp.op = "deleteFile"
    /\ lastResp.status = 500
    /\ files[lastResp.req.fileId].status = "uploaded"
    /\ files[lastResp.req.fileId].deletedAt = NULL
    /\ files[lastResp.req.fileId].s3Key \in storage

\* C20: detectFilesForSession never creates or changes a file record, a
\* session or a storage object, whatever the batch; it returns one preview per
\* input file, in order, and a file that is not application/pdf or has no
\* payload gets the preview unknown, 0, false.
C20_DetectPersistsNothing ==
    [][(lastResp = NoResp /\ lastResp' # NoResp /\ lastResp'.op = "detectFiles") =>
         /\ UNCHANGED <<files, sessions, storage>>
         /\ lastResp'.status < 400 =>
              LET inputs == lastResp'.req.files
                  previews == lastResp'.body
              IN /\ Len(previews) = Len(inputs)
                 /\ \A k \in 1..Len(inputs) :
                      /\ previews[k].originalName = trim(inputs[k].originalname)
                      /\ (inputs[k].mimetype # "application/pdf" \/ ~inputs[k].buffer) =>
                            /\ previews[k].autoDetectedType = "unknown"
                            /\ previews[k].detectionConfidence = 0
                            /\ previews[k].isLikelyStatement = FALSE]_vars

\* a preview of a credit card statement, a text file and a file without
\* payload was returned: three previews, the last two unknown
C20_Witness ==
    /\ lastResp # NoResp
    /\ lastResp.op = "detectFiles"
    /\ lastResp.status = 201
    /\ Len(lastResp.body) = 3
    /\ lastResp.body[1].autoDetectedType = "credit"
    /\ lastResp.req.files[2].mimetype = "text/plain"
    /\ lastResp.body[2].autoDetectedType = "unknown"
    /\ ~lastResp.req.files[3].buffer
    /\ lastResp.body[3].isLikelyStatement = FALSE

\* ------------------------------------------------------------------------
\* Classifier claims
\* ------------------------------------------------------------------------
Classified ==
    /\ lastResp # NoResp
    /\ lastResp.op = "detectStatementTypeFromText"

\* the places of a text at which a marker phrase stands
PlacesOf(text, phrase) ==
    { i \in 1..Len(text) :
        /\ i + Len(phrase) - 1 <= Len(text)
        /\ \A j \in 1..Len(phrase) : text[i + j - 1] = phrase[j] }

MarkersOf(type) == { STATEMENT_KEYWORDS[type][i] : i \in 1..Len(STATEMENT_KEYWORDS[type]) }

\* the distinct markers of a category that occur in a text, and all their occurrences
MarkersFound(text, type) == { m \in MarkersOf(type) : PlacesOf(text, m) # {} }

RECURSIVE SumOver(_, _)
SumOver(text, markers) ==
    IF markers = {} THEN 0
    ELSE LET m == CHOOSE x \in markers : TRUE
         IN Cardinality(PlacesOf(text, m)) + SumOver(text, markers \ {m})

Mentions(text, type) == SumOver(text, MarkersOf(type))

Categories == {"credit", "checking", "savings"}

NoMarker(text) == \A type \in Categories : MarkersFound(text, type) = {}

\* C21: the classifier answers unknown, 0, false for empty text and for text
\* in which no marker phrase of any category occurs, and a known type with
\* isLikelyStatement true for every other text.
C21_UnknownIffNoMarker ==
    Classified =>
       IF NoMarker(lastResp.req.text)
       THEN /\ lastResp.body.autoDetectedType = "unknown"
            /\ lastResp.body.detectionConfidence = 0
            /\ lastResp.body.isLikelyStatement = FALSE
       ELSE /\ lastResp.body.autoDetectedType \in Categories
            /\ lastResp.body.isLikelyStatement = TRUE

\* a text of words none of which completes a marker phrase was classified unknown
C21_Witness ==
    /\ Classified
    /\ lastResp.req.text = <<"credit", "account", "lorem">>
    /\ lastResp.body.autoDetectedType = "unknown"
    /\ lastResp.body.isLikelyStatement = FALSE

\* a category is a candidate when one of its markers occurs
Candidate(text, type) == MarkersFound(text, type) # {}

Unique(text, type) == Cardinality(MarkersFound(text, type))

Total(type) == Cardinality(MarkersOf(type))

\* a is at least b under (distinct markers found, then occurrences, then coverage)
RanksAtLeast(text, a, b) ==
    \/ Unique(text, a) > Unique(text, b)
    \/ /\ Unique(text, a) = Unique(text, b)
       /\ \/ Mentions(text, a) > Mentions(text, b)
          \/ /\ Mentions(text, a) = Mentions(text, b)
             /\ Unique(text, a) * Total(b) >= Unique(text, b) * Total(a)

\* C22: the detected type is the candidate category that is greatest under
\* the order by distinct markers found, then by total marker occurrences,
\* then by coverage; so among categories with equally many distinct markers
\* the one with more occurrences wins.
C22_WinnerIsGreatest ==
    (Classified /\ ~NoMarker(lastResp.req.text)) =>
       LET text == lastResp.req.text
           winner == lastResp.body.autoDetectedType
       IN /\ winner \in Categories
          /\ Candidate(text, winner)
          /\ \A other \in Categories \ {winner} :
               Candidate(text, other) =>
                  RanksAtLeast(text, winner, other)

\* credit and checking each show one marker; credit's stands twice and wins
\* although checking has the better coverage
C22_Witness ==
    /\ Classified
    /\ lastResp.req.text = <<"minimum", "payment", "checking", "account", "minimum", "payment">>
    /\ Unique(lastResp.req.text, "credit") = Unique(lastResp.req.text, "checking")
    /\ Mentions(lastResp.req.text, "credit") = 2
    /\ Mentions(lastResp.req.text, "checking") = 1
    /\ lastResp.body.autoDetectedType = "credit"

\* two candidates level on distinct markers, on occurrences and on coverage
FullTie(text, a, b) ==
    /\ a # b
    /\ Candidate(text, a) /\ Candidate(text, b)
    /\ Unique(text, a) = Unique(text, b)
    /\ Mentions(text, a) = Mentions(text, b)
    /\ Unique(text, a) * Total(b) = Unique(text, b) * Total(a)

\* The case C23 speaks of does not arise: the three categories have 4, 3 and 2
\* markers, so candidates with equally many distinct markers found never have
\* equal coverage, and the priority order is never consulted.
NoFullTie ==
    Classified => \A a, b \in Categories : ~FullTie(lastResp.req.text, a, b)

\* the only category of which a marker occurs in the text
OnlyCategory(text, type) ==
    /\ MarkersFound(text, type) # {}
    /\ \A other \in Categories \ {type} : MarkersFound(text, other) = {}

\* h hundredths is k/n rounded to two decimals
IsRounded(h, k, n) ==
    /\ 2 * n * h - 200 * k <= n
    /\ 200 * k - 2 * n * h <= n

\* C24: for text with k >= 1 distinct markers of exactly one category (of n
\* markers) and no marker of another, the classifier returns that category
\* with detectionConfidence k/n rounded to two decimals and isLikelyStatement
\* true; detectionConfidence (kept in hundredths) is always within [0, 1].
C24_ConfidenceIsCoverage ==
    Classified =>
       /\ lastResp.body.detectionConfidence \in 0..100
       /\ \A type \in Categories :
            OnlyCategory(lastResp.req.text, type) =>
               /\ lastResp.body.autoDetectedType = type
               /\ lastResp.body.isLikelyStatement = TRUE
               /\ IsRounded(lastResp.body.detectionConfidence,
                            Unique(lastResp.req.text, type), Total(type))

\* two of checking's three markers and nothing else: checking at 0.67
C24_Witness ==
    /\ Classified
    /\ OnlyCategory(lastResp.req.text, "checking")
    /\ Unique(lastResp.req.text, "checking") = 2
    /\ lastResp.body.autoDetectedType = "checking"
    /\ lastResp.body.detectionConfidence = 67

\* ------------------------------------------------------------------------
\* Session claims
\* ------------------------------------------------------------------------
UnambiguousAlphabet ==
    {"A", "B", "C", "D", "E", "F", "G", "H", "J", "K", "L", "M", "N", "P", "Q", "R", "S",
     "T", "U", "V", "W", "X", "Y", "Z", "2", "3", "4", "5", "6", "7", "8", "9"}

AmbiguousCharacters == {"0", "O", "1", "I", "l"}

IdGenerated ==
    /\ lastResp # NoResp
    /\ lastResp.op = "generateSessionId"

\* C25: every id generateSessionId returns has length exactly 8, consists only
\* of characters of ABCDEFGHJKLMNPQRSTUVWXYZ23456789 and contains none of
\* 0, O, 1, I and lowercase l.
C25_SessionIdShape ==
    IdGenerated =>
       /\ Len(lastResp.body) = 8
       /\ \A i \in 1..Len(lastResp.body) :
            /\ lastResp.body[i] \in UnambiguousAlphabet
            /\ lastResp.body[i] \notin AmbiguousCharacters

\* an id drawn from both ends of the alphabet and from the place where the
\* left-out letter I would stand
C25_Witness ==
    /\ IdGenerated
    /\ lastResp.body = <<"J", "9", "A", "9", "A", "A", "9", "9">>

\* ---- C26, C27: createSession ----
CreateCall(p) == procs[p].pc \in {"cs_exists", "cs_create"}

\* the step is p's insert of a session
CreatesSession(p) ==
    /\ procs[p].pc = "cs_create"
    /\ procs'[p] = Idle
    /\ sessions' # sessions

\* the step is p's call giving up on colliding ids
GivesUp(p) ==
    /\ procs[p].pc = "cs_exists"
    /\ procs'[p] = Idle
    /\ lastResp' # NoResp
    /\ lastResp'.op = "createSession"
    /\ lastResp'.status = 500
    /\ lastResp'.body = SESSION_ID_COLLISION_MESSAGE

\* the step is p's call finding its generated id already stored
SkipsTakenId(p) ==
    /\ procs[p].pc = "cs_exists"
    /\ procs'[p].pc = "cs_exists"
    /\ procs'[p].generated = procs[p].generated + 1

\* C26: a createSession call generates at most 5 session ids; a generated id
\* that is already stored is skipped (nothing is written) and the call goes on
\* to a fresh id; the call writes at most one session, a new active document
\* under an id no stored session had, and ends with that write; when all 5
\* ids collided the call ends with the collision error and has written nothing.
C26_CreateSessionAttempts ==
    [][\A p \in Procs :
         /\ (CreateCall(p) /\ CreateCall(p)') => procs'[p].generated <= SESSION_ID_RETRY_LIMIT
         /\ SkipsTakenId(p) => sessions' = sessions
         /\ (sessions' # sessions) => \E q \in Procs : CreatesSession(q)
         /\ CreatesSession(p) =>
              \E s \in sessions' \ sessions :
                 /\ sessions' = sessions \cup {s}
                 /\ s.status = "active"
                 /\ s.sessionId = procs[p].sessionId
                 /\ SessionsWithId(s.sessionId) = {}
         /\ GivesUp(p) =>
              /\ procs[p].generated = SESSION_ID_RETRY_LIMIT
              /\ sessions' = sessions
    ]_vars

\* a call that drew 5 colliding ids and gave up
C26_Witness ==
    /\ lastResp # NoResp
    /\ lastResp.op = "createSession"
    /\ lastResp.status = 500
    /\ lastResp.body = SESSION_ID_COLLISION_MESSAGE
    /\ lastResp.log.generated = SESSION_ID_RETRY_LIMIT

\* C27: no two stored sessions share a sessionId, also while two createSession
\* calls run at once.
C27_SessionIdUnique ==
    \A s, t \in sessions : s.sessionId = t.sessionId => s = t

\* a call whose insert lost the race for an id both calls had found free, and
\* which then created its session under another id
C27_Witness ==
    /\ lastResp # NoResp
    /\ lastResp.op = "createSession"
    /\ lastResp.status = 201
    /\ lastResp.log.duplicates >= 1
    /\ Cardinality(sessions) = 2

\* ---- C28: createEmailToken ----
\* the step is one createEmailToken call
TokenCall ==
    /\ lastResp = NoResp
    /\ lastResp' # NoResp
    /\ lastResp'.op = "createEmailToken"

\* the insert of the token generated at attempt i meets a stored hash
HashTaken(gen, i) == TokensWithHash(sha256Hex(gen[i])) # {}

\* the call gets as far as attempt i: every earlier insert was a duplicate-hash failure
ReachesAttempt(gen, failAt, i) ==
    \A j \in 1..(i - 1) : HashTaken(gen, j) /\ failAt # j

\* C28: createEmailToken makes at most 3 insert attempts, one freshly generated
\* raw token each: a duplicate-hash failure leads to the next attempt, any
\* other insert error ends the call at that attempt, and three duplicate-hash
\* failures end it with the terminal error; a failed call leaves the stored
\* tokens as they were; a successful call adds exactly one token record, with
\* usedAt null, and returns the raw token whose hash that record holds.
C28_CreateEmailTokenAttempts ==
    [][TokenCall =>
        LET gen == lastResp'.req.gen
            failAt == lastResp'.req.failAt
            made == lastResp'.body.attempts
        IN /\ made \in 1..3
           /\ ReachesAttempt(gen, failAt, made)
           /\ CASE lastResp'.log = "ok" ->
                     /\ ~HashTaken(gen, made)
                     /\ failAt # made
                     /\ lastResp'.body.raw = gen[made]
                     /\ \E d \in tokens' \ tokens :
                          /\ tokens' = tokens \cup {d}
                          /\ d.tokenHash = sha256Hex(lastResp'.body.raw)
                          /\ d.usedAt = NULL
                [] lastResp'.log = "insert" ->
                     /\ failAt = made
                     /\ tokens' = tokens
                [] lastResp'.log = "unique-hash" ->
                     /\ made = 3
                     /\ HashTaken(gen, 3)
                     /\ failAt # 3
                     /\ tokens' = tokens
                [] OTHER -> FALSE
    ]_vars

\* a call that succeeded at its third attempt after two duplicate-hash failures
C28_Witness ==
    /\ lastResp # NoResp
    /\ lastResp.op = "createEmailToken"
    /\ lastResp.log = "ok"
    /\ lastResp.body.attempts = 3
    /\ lastResp.req.gen[1] # lastResp.req.gen[3]

\* ---- C29, C30: validateAccessToken ----
Validated ==
    /\ lastResp # NoResp
    /\ lastResp.op = "validateAccessToken"

\* the payload is one validateAccessToken must turn down
Unacceptable(payload) ==
    \/ payload.email = NoEmail
    \/ payload.type \notin {"continue_session", "find_sessions", "session_bootstrap"}
    \/ (payload.type = "continue_session" /\ payload.sessionId = NoSid)

\* C29: validateAccessToken answers Unauthorized for every token whose payload
\* has no email, has an unrecognized type, or has type continue_session
\* without a sessionId; no such payload is returned to the caller.
C29_UnacceptablePayloadRejected ==
    (Validated /\ Unacceptable(lastResp.req.payload)) =>
        /\ lastResp.status = 401
        /\ lastResp.body = INVALID_ACCESS_TOKEN_MESSAGE

\* a signed continue_session token with an email and no sessionId was turned down
C29_Witness ==
    /\ Validated
    /\ lastResp.req.verifies
    /\ lastResp.req.payload.email # NoEmail
    /\ lastResp.req.payload.type = "continue_session"
    /\ lastResp.req.payload.sessionId = NoSid
    /\ lastResp.status = 401

\* the validated token is an unexpired bootstrap token of a stored session
BootstrapTokenPresented ==
    /\ Validated
    /\ lastResp.req.verifies
    /\ lastResp.req.payload.type = "session_bootstrap"
    /\ \E s \in sessions :
         lastResp.req.payload = createSessionBootstrapAccessToken(s.email, s.sessionId)

\* C30: the bootstrap token createSession returns is accepted by
\* validateAccessToken while unexpired, and its payload is what the guard
\* hands to the authenticated endpoints.
C30_BootstrapTokenAccepted ==
    BootstrapTokenPresented =>
        /\ lastResp.status = 200
        /\ lastResp.body = lastResp.req.payload

\* ---- C31, C32: reading sessions ----
ReadOps == {"getActiveSessionById", "findActiveSessionByIdAndEmail", "listActiveSessionsForEmail"}

\* the session is one the read asks for
Asked(call, s) ==
    /\ s.email = normalizeEmail(call.email)
    /\ (call.op # "listActiveSessionsForEmail" => s.sessionId = call.sessionId)

\* the step is p's query for sessions, finding some
ReadFinds(p) ==
    /\ procs[p].pc = "idle"
    /\ procs'[p].pc = "rs_count"

\* the step is a read answered without a session
ReadFindsNone ==
    /\ lastResp = NoResp
    /\ lastResp' # NoResp
    /\ lastResp'.op \in ReadOps
    /\ lastResp'.log \in {"none", "denied"}
    /\ lastResp'.status # 403

\* the step is p's read returning its summaries
ReadReturns(p) ==
    /\ procs[p].pc = "rs_count"
    /\ procs'[p] = Idle

\* C31: getActiveSessionById, findActiveSessionByIdAndEmail and
\* listActiveSessionsForEmail find exactly the asked-for sessions that, at the
\* time of the query, have status active, expiresAt later than now and no
\* deletedAt, and return those; an expired session is left out although no
\* sweeper has touched its record; and a deleted session record stays as it
\* is, the only one under its sessionId, so no later read returns it.
C31_ActiveOnlyWhileLive ==
    [][ /\ \A p \in Procs :
             /\ ReadFinds(p) =>
                  /\ procs'[p].found # {}
                  /\ procs'[p].found =
                       { s \in sessions : LiveSession(s) /\ Asked(procs'[p].call, s) }
             /\ ReadReturns(p) =>
                  { r.sessionId : r \in lastResp'.body } =
                     { s.sessionId : s \in procs[p].found }
        /\ ReadFindsNone =>
             { s \in sessions : LiveSession(s) /\ Asked(lastResp'.req, s) } = {}
        /\ \A s \in sessions :
             s.status = "deleted" =>
                /\ s \in sessions'
                /\ \A t \in sessions' : t.sessionId = s.sessionId => t = s
      ]_vars

\* a listing made when the first session had run out, its record still saying
\* active: only the second session is returned
C31_Witness ==
    /\ lastResp # NoResp
    /\ lastResp.op = "listActiveSessionsForEmail"
    /\ lastResp.status = 200
    /\ lastResp.log = "ok"
    /\ { r.sessionId : r \in lastResp.body } = {"BBBBBBB3"}
    /\ \E s \in sessions : /\ s.sessionId = "AAAAAAA2"
                           /\ s.status = "active"
                           /\ s.expiresAt <= now

\* a read that came after the session was deleted and found nothing
DeletedSessionNotRead ==
    /\ lastResp # NoResp
    /\ lastResp.op = "getActiveSessionById"
    /\ lastResp.status = 404
    /\ \E s \in sessions : /\ s.sessionId = lastResp.req.sessionId
                           /\ s.status = "deleted"
                           /\ s.expiresAt > now

\* the session's file records that have status uploaded
UploadedFilesOf(sid) ==
    { i \in FileIds : files[i].sessionId = sid /\ files[i].status = "uploaded" }

\* C32: the uploadedFileCount of every session summary a read returns is the
\* number of that session's file records that have status uploaded when the
\* count is read, 0 when there are none; pending, rejected and deleted records
\* are not counted.
C32_UploadedFileCount ==
    [][ \A p \in Procs :
          ReadReturns(p) =>
             /\ lastResp'.body # {}
             /\ \A r \in lastResp'.body :
                  r.uploadedFileCount = Cardinality(UploadedFilesOf(r.sessionId))
      ]_vars

\* a summary counting one file of a session that also holds a rejected and a
\* deleted record
C32_Witness ==
    /\ lastResp # NoResp
    /\ lastResp.op \in ReadOps
    /\ lastResp.log = "ok"
    /\ \E r \in lastResp.body :
         /\ r.sessionId = "AAAAAAA2"
         /\ r.uploadedFileCount = 1
         /\ { files[i].status : i \in { j \in FileIds : files[j].sessionId = "AAAAAAA2" } }
              = {"uploaded", "rejected", "deleted"}

\* a summary of a session none of whose records is uploaded, one being pending
NoUploadedFileCounted ==
    /\ lastResp # NoResp
    /\ lastResp.op \in ReadOps
    /\ lastResp.log = "ok"
    /\ \E r \in lastResp.body :
         /\ r.uploadedFileCount = 0
         /\ \E i \in FileIds : files[i].sessionId = r.sessionId /\ files[i].status = "pending"

\* ---- C33: sendWithResend ----
\* the failures after which a retry is in order: a timeout or network error,
\* or a response with one of the retryable statuses
RetryableFailure(outcome) ==
    \/ outcome.kind = "error" /\ outcome.error \in {TimeoutError, NetworkError}
    \/ outcome.kind = "response" /\ outcome.status \in {408, 425, 429, 500, 502, 503, 504}

Failure(outcome) ==
    outcome.kind = "error" \/ outcome.status \notin 200..299

\* the step is a fetch of p's send
Fetches(p) ==
    /\ procs[p].pc = "sw_fetch"
    /\ procs'[p] # procs[p]

FetchOutcome(p) ==
    IF procs'[p] = Idle THEN lastResp'.log.outcomes[procs[p].attempt]
    ELSE procs'[p].outcomes[procs[p].attempt]

\* the attempts the setting allows: RESEND_RETRY_COUNT + 1, 3 when it is unset
\* or out of range
AllowedAttempts(config) ==
    IF config.RESEND_RETRY_COUNT \in { <<n>> : n \in 0..5 }
    THEN config.RESEND_RETRY_COUNT[1] + 1 ELSE 3

\* the send makes at most RESEND_RETRY_COUNT + 1 attempts, never more than 6,
\* and its last allowed attempt ends it with success or an error
ResendAttemptsBounded ==
    [][ \A p \in Procs :
          Fetches(p) =>
             /\ procs[p].attempt <= AllowedAttempts(procs[p].config)
             /\ procs[p].attempt <= 6
             /\ (procs[p].attempt = AllowedAttempts(procs[p].config)) =>
                   /\ procs'[p] = Idle
                   /\ lastResp'.op = "sendMagicLink"
                   /\ lastResp'.status \in {200, 500}
      ]_vars

\* C33: a send through the provider makes at most RESEND_RETRY_COUNT + 1
\* attempts (3 by default, never more than 6); it goes on to another attempt
\* only after a retryable failure, ends with an error at once on any other
\* failure, and ends with success on a response that is ok.
C33_RetriesOnlyRetryableFailures ==
    [][ \A p \in Procs :
          Fetches(p) =>
             /\ procs[p].attempt <= AllowedAttempts(procs[p].config)
             /\ procs[p].attempt <= 6
             /\ (procs'[p] # Idle) =>
                   /\ procs'[p].attempt = procs[p].attempt + 1
                   /\ RetryableFailure(FetchOutcome(p))
             /\ (Failure(FetchOutcome(p)) /\ ~RetryableFailure(FetchOutcome(p))) =>
                   /\ procs'[p] = Idle
                   /\ lastResp'.status = 500
             /\ ~Failure(FetchOutcome(p)) =>
                   /\ procs'[p] = Idle
                   /\ lastResp'.status = 200
      ]_vars

\* a send that went on after a 400 response and gave up at its last attempt
RetriedAfterBadRequest ==
    /\ lastResp # NoResp
    /\ lastResp.op = "sendMagicLink"
    /\ lastResp.status = 500
    /\ lastResp.log.attempts = 3
    /\ \A i \in 1..3 : lastResp.log.outcomes[i] = FetchResponse(400, <<"upstream", "fetch", "failed">>)

\* ---- C34: a deleted session keeps no uploaded file ----
NoneInFlight == \A p \in Procs : procs[p].pc = "idle"

\* C34: whenever a session has status deleted and no upload or delete is in
\* flight, none of its file records has status uploaded, also after an upload
\* batch that had passed its access check ran alongside the deletion.
C34_DeletedSessionHasNoUploadedFile ==
    NoneInFlight =>
        \A s \in sessions :
            s.status = "deleted" =>
                \A i \in FileIds : files[i].sessionId = s.sessionId => files[i].status # "uploaded"

\* the cascade at work with nothing alongside it: the session is deleted, its
\* stored files are marked deleted, none is uploaded
CascadeLeftNoUploadedFile ==
    /\ NoneInFlight
    /\ lastResp # NoResp
    /\ lastResp.op = "deleteSession"
    /\ lastResp.status = 200
    /\ \A i \in FileIds : files[i].sessionId = lastResp.req.sessionId => files[i].status # "uploaded"
    /\ \E i \in FileIds : files[i].sessionId = lastResp.req.sessionId /\ files[i].status = "deleted"

\* ---- C35: the sliding window of isRateLimited ----
\* the earlier calls with the key of call i made less than a window before it
EarlierInWindow(i) ==
    { j \in 1..(i - 1) : /\ rlLog[j].key = rlLog[i].key
                         /\ rlLog[i].t - rlLog[j].t < Window }

\* C35: a call of isRateLimited returns true exactly when at least 5 earlier
\* calls with the same (endpoint, ip-or-unknown, email) key were made less
\* than 10 minutes before it, limited calls among them counting like the
\* others; calls with any other key have no part in the result.
C35_LimitedIffFiveInWindow ==
    \A i \in DOMAIN rlLog :
        rlLog[i].limited <=> Cardinality(EarlierInWindow(i)) >= MAX_REQUESTS

\* a call let through although five earlier calls had its key, these being a
\* full window old, with a call of another key in between
C35_Witness ==
    \E i \in DOMAIN rlLog :
        /\ ~rlLog[i].limited
        /\ Cardinality(EarlierSameKey(i)) >= 5
        /\ EarlierInWindow(i) = {}
        /\ \E j \in 1..(i - 1) : rlLog[j].key # rlLog[i].key

\* a limited call that has a limited call among the earlier ones of its window
LimitedAfterLimited ==
    \E i \in DOMAIN rlLog :
        /\ rlLog[i].limited
        /\ rlLog[i].t > rlLog[1].t
        /\ \E j \in EarlierInWindow(i) : rlLog[j].limited

\* ------------------------------------------------------------------------
\* Same-named files of one batch
\* ------------------------------------------------------------------------
FileNameKeyOf(file) == LowerSeq(trim(file.originalname))

\* the file gets past the MIME, size and payload checks and the schema's validators
PassesValidation(file) ==
    /\ file.mimetype = ALLOWED_MIME_TYPE
    /\ file.size >= 1
    /\ file.size <= getMaxFileSizeBytes
    /\ file.buffer

\* the places before the current file, in the same batch, of files with its name
EarlierNamesakes(p) ==
    { k \in 1..(procs[p].i - 1) :
        FileNameKeyOf(procs[p].acceptedBatch[k]) = FileNameKeyOf(CurrentFile(p)) }

\* some record of the session, whatever its status, carries this name
NameEverRecorded(sid, name) ==
    \E i \in FileIds : /\ files[i].sessionId = sid
                       /\ LowerSeq(trim(files[i].originalName)) = LowerSeq(trim(name))

InvalidNamesakeDidNotBlock ==
    \E p \in Procs :
        /\ procs[p].pc = "up_file"
        /\ Len(procs[p].rejected) = 1
        /\ procs[p].rejected[1].reason # DUPLICATE_FILE_NAME_REASON
        /\ Len(procs[p].uploaded) = 1
        /\ LowerSeq(trim(procs[p].rejected[1].originalName))
             = LowerSeq(trim(files[procs[p].uploaded[1]].originalName))

\* ------------------------------------------------------------------------
\* Which records the duplicate-name check counts
\* ------------------------------------------------------------------------
\* request p reads the names of its session in this step
KeysRead(p) == procs[p].pc = "up_keys" /\ procs'[p].pc = "up_file"

\* request p is past that read before and after this step
InUploadLoop(p) ==
    /\ procs[p].pc \in {"up_file", "up_store", "up_mark"}
    /\ procs'[p].pc \in {"up_file", "up_store", "up_mark"}

\* the names, trimmed and lower-cased, of the session's pending, uploaded and
\* rejected records
CountedNameKeys(sid) ==
    { LowerSeq(trim(files[i].originalName)) :
        i \in { j \in FileIds : /\ files[j].sessionId = sid
                                /\ files[j].status \in {"pending", "uploaded", "rejected"} } }

\* C37: the duplicate-name check counts every record of the session that is
\* not deleted, pending and rejected ones included: the names an upload reads
\* are exactly those of the pending, uploaded and rejected records, it keeps
\* them to its end, and it rejects as a duplicate every file whose name, in
\* any letter case, is among them. So after an upload of X failed at the
\* storage write, a later upload of X is rejected as a duplicate as long as
\* the rejected record is not deleted when the names are read.
C37_RejectedRecordsCount ==
    [][\A p \in Procs :
         /\ KeysRead(p)
              => procs'[p].fileNameKeysInSession = CountedNameKeys(procs[p].sessionId)
         /\ InUploadLoop(p)
              => procs[p].fileNameKeysInSession \subseteq procs'[p].fileNameKeysInSession
         /\ (TurnTaken(p) /\ HeldAsTaken(p))
              => /\ RejectedWith(p, DUPLICATE_FILE_NAME_REASON)
                 /\ UNCHANGED <<files, storage>>
    ]_vars

\* the records of the session that carry the name of the file p handled last
NamesakeRecords(p) ==
    { i \in FileIds :
        /\ files[i].sessionId = procs[p].sessionId
        /\ LowerSeq(trim(files[i].originalName))
             = FileNameKeyOf(procs[p].acceptedBatch[procs[p].i - 1]) }

\* a single-file upload was rejected as a duplicate of a record whose storage
\* write had failed, no other record carrying the name
C37_Witness ==
    \E p \in Procs :
        /\ procs[p].pc = "up_file"
        /\ Len(procs[p].acceptedBatch) = 1
        /\ procs[p].i = 2
        /\ Len(procs[p].rejected) = 1
        /\ procs[p].rejected[1].reason = DUPLICATE_FILE_NAME_REASON
        /\ NamesakeRecords(p) # {}
        /\ \A i \in NamesakeRecords(p) : /\ files[i].status = "rejected"
                                         /\ files[i].s3Key \notin storage

\* the rejected record was deleted and the name was then uploaded again
UploadedAfterRejectedRecordDeleted ==
    \E i, j \in FileIds :
        /\ i < j
        /\ files[i].sessionId = files[j].sessionId
        /\ LowerSeq(trim(files[i].originalName)) = LowerSeq(trim(files[j].originalName))
        /\ files[i].status = "deleted"
        /\ files[j].status = "uploaded"
        /\ \A k \in FileIds \ {i, j} : files[k].status = "uploaded"
        /\ Len(files) = MaxFiles

\* ------------------------------------------------------------------------
\* Deleted file records
\* ------------------------------------------------------------------------
\* this step answers an update, a deletion or a download of a deleted record
DeletedFileAsked ==
    /\ lastResp = NoResp
    /\ lastResp' # NoResp
    /\ lastResp'.op \in {"updateFile", "deleteFile", "getRawFile"}
    /\ lastResp'.req.fileId \in FileIds
    /\ files[lastResp'.req.fileId].status = "deleted"

\* C38: file status deleted is absorbing. updateFileStatementType, deleteFile
\* and getRawFile on a deleted record answer not-found, and no step of any
\* operation (moveFilesToCategory, uploads and session deletion included)
\* changes the status, statementType, category or confirmedByUser of a
\* record that is deleted.
C38_DeletedIsAbsorbing ==
    [][/\ DeletedFileAsked
          => /\ lastResp'.status = 404
             /\ lastResp'.body = FILE_NOT_FOUND_MESSAGE
       /\ \A i \in FileIds :
            files[i].status = "deleted"
              => /\ files'[i].status = "deleted"
                 /\ files'[i].statementType = files[i].statementType
                 /\ files'[i].category = files[i].category
                 /\ files'[i].confirmedByUser = files[i].confirmedByUser
    ]_vars

\* the same, for the steps taken while no upload has a record in the making
DeletedStaysDeletedBetweenUploads ==
    [][(\A p \in Procs : procs[p].pc \notin {"up_store", "up_mark"})
         => /\ DeletedFileAsked => lastResp'.status = 404
            /\ \A i \in FileIds :
                 files[i].status = "deleted"
                   => /\ files'[i].status = "deleted"
                      /\ files'[i].statementType = files[i].statementType
                      /\ files'[i].category = files[i].category
                      /\ files'[i].confirmedByUser = files[i].confirmedByUser
    ]_vars

\* a record keeps the deletion time of a deletion its status no longer shows
DeletedRecordRevived ==
    \E i \in FileIds : files[i].deletedAt # NULL /\ files[i].status # "deleted"

\* ------------------------------------------------------------------------
\* Storage keys of organized files
\* ------------------------------------------------------------------------
\* the key under which the file's object was written when it was uploaded
KeyAtUpload(fileId) == (CHOOSE stored \in OrganizeStoredFiles : TRUE)[fileId].s3Key

\* the folder the file's current category would give
FolderOf(category) == IF category = "unfiled" THEN "root" ELSE category

\* this step answers an operation of the given name
Answers(op) == lastResp = NoResp /\ lastResp' # NoResp /\ lastResp'.op = op

\* C39: updateFileStatementType and moveFilesToCategory never change a file's
\* storage bucket or storage key, nor the stored objects: every record keeps
\* the key written at upload, getRawFile succeeds exactly when the object of
\* that key is in storage and deleteFile removes exactly that object, also
\* when the folder segment of the key no longer matches the file's category.
C39_StorageKeyKept ==
    [][/\ (Answers("updateFile") \/ Answers("moveFiles"))
          => /\ storage' = storage
             /\ \A i \in FileIds : /\ files'[i].s3Key = files[i].s3Key
                                   /\ files'[i].s3Bucket = files[i].s3Bucket
       /\ \A i \in FileIds : /\ files'[i].s3Key = KeyAtUpload(i)
                             /\ files'[i].s3Bucket = S3_BUCKET_NAME
       /\ (Answers("getRawFile") /\ FileAccess(lastResp'.req.fileId, lastResp'.req.user, now).ok)
          => (lastResp'.status = 200 <=> KeyAtUpload(lastResp'.req.fileId) \in storage)
       /\ (Answers("deleteFile") /\ lastResp'.status = 200)
          => storage' = storage \ {KeyAtUpload(lastResp'.req.fileId)}
    ]_vars

\* a file was moved and retyped into another category and its download still
\* succeeds under the key of the folder it was uploaded to
C39_Witness ==
    /\ lastResp # NoResp
    /\ lastResp.op = "getRawFile"
    /\ lastResp.status = 200
    /\ LET f == files[lastResp.req.fileId]
       IN /\ f.status = "uploaded"
          /\ f.confirmedByUser
          /\ f.s3Key[3] # FolderOf(f.category)
          /\ f.s3Key = KeyAtUpload(lastResp.req.fileId)
          /\ f.s3Key \in storage

\* a file moved out of its upload folder was deleted and its object is gone
MovedFileDeleted ==
    \E i \in FileIds :
        /\ files[i].status = "deleted"
        /\ files[i].confirmedByUser
        /\ files[i].s3Key[3] # FolderOf(files[i].category)
        /\ files[i].s3Key \notin storage

\* ------------------------------------------------------------------------
\* Ties between categories
\* ------------------------------------------------------------------------
\* two candidates level on distinct markers found and on occurrences
TiedOnMatchesAndMentions(text, a, b) ==
    /\ a # b
    /\ Candidate(text, a) /\ Candidate(text, b)
    /\ Unique(text, a) = Unique(text, b)
    /\ Mentions(text, a) = Mentions(text, b)

\* C40: with the shipped marker table (credit 4, checking 3, savings 2
\* markers) no two candidate categories are level on distinct markers found,
\* occurrences and coverage at once; whenever the detected category is level
\* with another candidate on distinct markers found and on occurrences, it is
\* the one with fewer markers in the table (savings before checking before
\* credit), so the priority order credit > checking > savings decides nothing.
C40_TieGoesToFewerMarkers ==
    Classified =>
       LET text == lastResp.req.text
           winner == lastResp.body.autoDetectedType
       IN /\ Total("credit") = 4 /\ Total("checking") = 3 /\ Total("savings") = 2
          /\ \A a, b \in Categories :
               TiedOnMatchesAndMentions(text, a, b)
                  => Unique(text, a) * Total(b) # Unique(text, b) * Total(a)
          /\ \A other \in Categories :
               (winner \in Categories /\ TiedOnMatchesAndMentions(text, winner, other))
                  => /\ Total(winner) < Total(other)
                     /\ STATEMENT_TYPE_PRIORITY[winner] < STATEMENT_TYPE_PRIORITY[other]

\* one marker of each category, once each: savings is detected
C40_Witness ==
    /\ Classified
    /\ \A a, b \in Categories :
         a # b => TiedOnMatchesAndMentions(lastResp.req.text, a, b)
    /\ lastResp.body.autoDetectedType = "savings"

\* credit and checking level with two markers each, savings absent: checking
CheckingBeatsCreditOnTie ==
    /\ Classified
    /\ TiedOnMatchesAndMentions(lastResp.req.text, "credit", "checking")
    /\ ~Candidate(lastResp.req.text, "savings")
    /\ lastResp.body.autoDetectedType = "checking"

====
